---- MODULE Spec2Model ----
(***************************************************************************)
(* Model of the loan-origination analysis core: DataProcessor              *)
(* (src/data_processor.py), the functions of src/statistics.py,            *)
(* filter_dataframe of src/utils.py and the session of src/app.py.         *)
(*                                                                         *)
(* A DataFrame is a record [columns |-> sequence of column names,          *)
(* rows |-> sequence of rows]; a row is a function from the column names   *)
(* to cells.  A cell is a record [k |-> kind, v |-> payload]:              *)
(*   "null"  a missing value (None / NaN / NaT), v = 0                     *)
(*   "str"   a Python str, v = the text                                    *)
(*   "num"   a number, v = its value                                       *)
(*   "ts"    a timestamp, v = <<days since 1970-01-01, second of day>>     *)
(* The processing_time_days column holds the timedelta's total_seconds();  *)
(* the value in days is v / SecondsPerDay, so "v < 0" and                  *)
(* "v > 365 * SecondsPerDay" are the code's comparisons with 0 and 365.    *)
(***************************************************************************)
EXTENDS Integers, Sequences, FiniteSets, TLC

\* raw_data, column_mapping, data: the attributes of one DataProcessor
\*   (data is <<>> for None and <<frame>> otherwise)
\* result: the last call made, [op, args, exc, value, again]; exc is the
\*   exception raised ("none" if the call returned), value what it returned,
\*   and again tells that the call before it was the same call and returned
\* session_state: st.session_state, a function of the keys it has
\* uploaded_file: the file in the uploader (<<>> for None, <<table>> otherwise)
VARIABLES raw_data, column_mapping, data, result, session_state, uploaded_file

vars == <<raw_data, column_mapping, data, result, session_state, uploaded_file>>

\* st.session_state of a new session, without any key, and an empty uploader
NoSession == [key \in {} |-> FALSE]
NoFile == <<>>

---------------------------------------------------------------------------
(* Cells *)

Null == [k |-> "null", v |-> 0]
Str(s) == [k |-> "str", v |-> s]
Num(n) == [k |-> "num", v |-> n]
Ts(d, s) == [k |-> "ts", v |-> <<d, s>>]

\* pd.isna(x)
IsNa(c) == c.k = "null"

SecondsPerDay == 86400

---------------------------------------------------------------------------
(* Python str operations *)

UpperChars == "ABCDEFGHIJKLMNOPQRSTUVWXYZ"
LowerChars == "abcdefghijklmnopqrstuvwxyz"
DigitChars == "0123456789"

CharAt(s, i) == SubSeq(s, i, i)

\* position (1-based) of the one-character string c in alphabet, 0 if absent
RECURSIVE IndexIn(_, _, _)
IndexIn(alphabet, c, i) ==
    IF i > Len(alphabet) THEN 0
    ELSE IF CharAt(alphabet, i) = c THEN i
    ELSE IndexIn(alphabet, c, i + 1)

LowerChar(c) ==
    LET u == IndexIn(UpperChars, c, 1)
    IN IF u = 0 THEN c ELSE CharAt(LowerChars, u)

\* str.lower()
RECURSIVE Lower(_)
Lower(s) ==
    IF Len(s) = 0 THEN ""
    ELSE LowerChar(CharAt(s, 1)) \o Lower(SubSeq(s, 2, Len(s)))

\* Python's "sub in s"
Contains(sub, s) ==
    \E i \in 0..(Len(s) - Len(sub)) : SubSeq(s, i + 1, i + Len(sub)) = sub

IsDigit(c) == IndexIn(DigitChars, c, 1) # 0
IsLetter(c) == IndexIn(LowerChars, LowerChar(c), 1) # 0
DigitVal(c) == IndexIn(DigitChars, c, 1) - 1

\* length of the run of characters satisfying the class, starting at s[j]
RECURSIVE DigitRun(_, _)
DigitRun(s, j) ==
    IF j > Len(s) \/ ~IsDigit(CharAt(s, j)) THEN 0 ELSE 1 + DigitRun(s, j + 1)

RECURSIVE LetterRun(_, _)
LetterRun(s, j) ==
    IF j > Len(s) \/ ~IsLetter(CharAt(s, j)) THEN 0 ELSE 1 + LetterRun(s, j + 1)

RECURSIVE SpaceRun(_, _)
SpaceRun(s, j) ==
    IF j > Len(s) \/ CharAt(s, j) # " " THEN 0 ELSE 1 + SpaceRun(s, j + 1)

\* int(s) for a string of digits
RECURSIVE ToInt(_)
ToInt(s) ==
    IF Len(s) = 0 THEN 0
    ELSE 10 * ToInt(SubSeq(s, 1, Len(s) - 1)) + DigitVal(CharAt(s, Len(s)))


---------------------------------------------------------------------------
(* datetime.strptime, as used by DataProcessor._parse_date *)

\* A format is a sequence of tokens: a directive ("%Y", "%m", ...) or a
\* literal character.
F3(a, s, b, c) == <<a, s, b, s, c>>
WithTime(f) == f \o <<" ", "%H", ":", "%M", ":", "%S">>

formats ==
    << F3("%Y", "-", "%m", "%d"), F3("%d", "-", "%m", "%Y"), F3("%m", "-", "%d", "%Y"),
       F3("%Y", "/", "%m", "%d"), F3("%d", "/", "%m", "%Y"), F3("%m", "/", "%d", "%Y"),
       WithTime(F3("%Y", "-", "%m", "%d")), WithTime(F3("%d", "-", "%m", "%Y")),
       WithTime(F3("%m", "-", "%d", "%Y")),
       WithTime(F3("%Y", "/", "%m", "%d")), WithTime(F3("%d", "/", "%m", "%Y")),
       WithTime(F3("%m", "/", "%d", "%Y")),
       F3("%b", " ", "%d", "%Y"), F3("%d", " ", "%b", "%Y"),
       F3("%B", " ", "%d", "%Y"), F3("%d", " ", "%B", "%Y") >>

MonthNames ==
    << "january", "february", "march", "april", "may", "june", "july",
       "august", "september", "october", "november", "december" >>

MonthAbbrs ==
    << "jan", "feb", "mar", "apr", "may", "jun", "jul",
       "aug", "sep", "oct", "nov", "dec" >>

RECURSIVE IndexOfStr(_, _, _)
IndexOfStr(seq, x, i) ==
    IF i > Len(seq) THEN 0
    ELSE IF seq[i] = x THEN i
    ELSE IndexOfStr(seq, x, i + 1)

NumericDirectives == {"%Y", "%m", "%d", "%H", "%M", "%S"}

\* the widest text a numeric directive's pattern can take
MaxWidth(tok) == IF tok = "%Y" THEN 4 ELSE 2

\* does the value n, written with w digits, match the directive's pattern
FieldOk(tok, n, w) ==
    CASE tok = "%Y" -> w = 4
      [] tok = "%m" -> n >= 1 /\ n <= 12
      [] tok = "%d" -> n >= 1 /\ n <= 31
      [] tok = "%H" -> n <= 23
      [] tok = "%M" -> n <= 59
      [] tok = "%S" -> n <= 59

NoFields == [Y |-> 0, m |-> 0, d |-> 0, H |-> 0, M |-> 0, S |-> 0, ok |-> TRUE]
NoMatch == [Y |-> 0, m |-> 0, d |-> 0, H |-> 0, M |-> 0, S |-> 0, ok |-> FALSE]

SetField(acc, tok, n) ==
    CASE tok = "%Y" -> [acc EXCEPT !.Y = n]
      [] tok \in {"%m", "%b", "%B"} -> [acc EXCEPT !.m = n]
      [] tok = "%d" -> [acc EXCEPT !.d = n]
      [] tok = "%H" -> [acc EXCEPT !.H = n]
      [] tok = "%M" -> [acc EXCEPT !.M = n]
      [] tok = "%S" -> [acc EXCEPT !.S = n]

\* Match the tokens fmt[i..] against s[j..].  Every directive of the formats
\* above is followed by a literal or by the end of the format, so the regular
\* expression strptime builds takes the longest run each directive allows.
RECURSIVE MatchFormat(_, _, _, _, _)
MatchFormat(fmt, i, s, j, acc) ==
    IF i > Len(fmt) THEN (IF j > Len(s) THEN acc ELSE NoMatch)
    ELSE LET tok == fmt[i] IN
      IF tok \in NumericDirectives THEN
          LET run == DigitRun(s, j)
              w == IF run > MaxWidth(tok) THEN MaxWidth(tok) ELSE run
              n == ToInt(SubSeq(s, j, j + w - 1))
          IN IF w = 0 \/ ~FieldOk(tok, n, w) THEN NoMatch
             ELSE MatchFormat(fmt, i + 1, s, j + w, SetField(acc, tok, n))
      ELSE IF tok \in {"%b", "%B"} THEN
          LET w == LetterRun(s, j)
              name == Lower(SubSeq(s, j, j + w - 1))
              n == IndexOfStr(IF tok = "%b" THEN MonthAbbrs ELSE MonthNames, name, 1)
          IN IF n = 0 THEN NoMatch
             ELSE MatchFormat(fmt, i + 1, s, j + w, SetField(acc, tok, n))
      ELSE IF tok = " " THEN
          LET w == SpaceRun(s, j)
          IN IF w = 0 THEN NoMatch ELSE MatchFormat(fmt, i + 1, s, j + w, acc)
      ELSE
          IF j <= Len(s) /\ CharAt(s, j) = tok
          THEN MatchFormat(fmt, i + 1, s, j + 1, acc)
          ELSE NoMatch

IsLeap(y) == (y % 4 = 0 /\ y % 100 # 0) \/ y % 400 = 0

DaysInMonth(y, m) ==
    IF m = 2 THEN (IF IsLeap(y) THEN 29 ELSE 28)
    ELSE IF m \in {4, 6, 9, 11} THEN 30 ELSE 31

\* days since 1970-01-01 of the proleptic Gregorian date y-m-d
DaysFromCivil(y, m, d) ==
    LET yy == IF m <= 2 THEN y - 1 ELSE y
        era == yy \div 400
        yoe == yy - era * 400
        mp == IF m > 2 THEN m - 3 ELSE m + 9
        doy == (153 * mp + 2) \div 5 + d - 1
        doe == yoe * 365 + yoe \div 4 - yoe \div 100 + doy
    IN era * 146097 + doe - 719468

\* datetime.strptime(s, fmt): the datetime, or Null for ValueError
Strptime(s, fmt) ==
    LET f == MatchFormat(fmt, 1, s, 1, NoFields)
    IN IF ~f.ok \/ f.Y < 1 \/ f.d > DaysInMonth(f.Y, f.m) THEN Null
       ELSE Ts(DaysFromCivil(f.Y, f.m, f.d), f.H * 3600 + f.M * 60 + f.S)

RECURSIVE TryFormats(_, _)
TryFormats(s, i) ==
    IF i > Len(formats) THEN Null
    ELSE LET t == Strptime(s, formats[i])
         IN IF t.k = "ts" THEN t ELSE TryFormats(s, i + 1)

\* DataProcessor._parse_date.  The last resort, pd.to_datetime, raises for
\* the texts that reach it here (a text without a date in it, a date with a
\* month or day out of range), which the bare except turns into None.
_parse_date(date_str) ==
    IF IsNa(date_str) THEN Null
    ELSE IF date_str.k = "ts" THEN date_str
    ELSE TryFormats(date_str.v, 1)

---------------------------------------------------------------------------
(* DataProcessor.__init__, suggest_column, _standardize_status *)

approval_terms == <<"approved", "accept", "funded", "complete">>
rejection_terms == <<"rejected", "denied", "declined", "refuse">>

\* "for term in terms: if term in status_lower: return ..."
RECURSIVE AnyTermIn(_, _, _)
AnyTermIn(terms, i, status_lower) ==
    IF i > Len(terms) THEN FALSE
    ELSE IF Contains(terms[i], status_lower) THEN TRUE
    ELSE AnyTermIn(terms, i + 1, status_lower)

\* str(status) of a cell that is not missing
PyStr(c) == c.v

\* the rejection terms looked up before the approval terms
_standardize_status_rejection_first(status) ==
    IF IsNa(status) THEN "unknown"
    ELSE LET status_lower == Lower(PyStr(status))
         IN IF AnyTermIn(rejection_terms, 1, status_lower) THEN "rejected"
            ELSE IF AnyTermIn(approval_terms, 1, status_lower) THEN "approved"
            ELSE "other"

_standardize_status(status) ==
    IF IsNa(status) THEN "unknown"
    ELSE LET status_lower == Lower(PyStr(status))
         IN IF AnyTermIn(approval_terms, 1, status_lower) THEN "approved"
            ELSE IF AnyTermIn(rejection_terms, 1, status_lower) THEN "rejected"
            ELSE "other"

\* columns.index(name) + 1
ColumnsIndex(columns, name) == IndexOfStr(columns, name, 1)

\* first pass: "if name in columns"
RECURSIVE ExactPass(_, _, _)
ExactPass(columns, possible_names, n) ==
    IF n > Len(possible_names) THEN 0
    ELSE IF ColumnsIndex(columns, possible_names[n]) # 0
         THEN ColumnsIndex(columns, possible_names[n])
    ELSE ExactPass(columns, possible_names, n + 1)

\* second pass, inner and outer loop
RECURSIVE LowerEqCol(_, _, _)
LowerEqCol(columns, name, c) ==
    IF c > Len(columns) THEN 0
    ELSE IF Lower(name) = Lower(columns[c]) THEN ColumnsIndex(columns, columns[c])
    ELSE LowerEqCol(columns, name, c + 1)

RECURSIVE LowerEqPass(_, _, _)
LowerEqPass(columns, possible_names, n) ==
    IF n > Len(possible_names) THEN 0
    ELSE IF LowerEqCol(columns, possible_names[n], 1) # 0
         THEN LowerEqCol(columns, possible_names[n], 1)
    ELSE LowerEqPass(columns, possible_names, n + 1)

\* third pass, inner and outer loop
RECURSIVE PartialCol(_, _, _)
PartialCol(columns, name, c) ==
    IF c > Len(columns) THEN 0
    ELSE IF Contains(Lower(name), Lower(columns[c]))
            \/ Contains(Lower(columns[c]), Lower(name))
         THEN ColumnsIndex(columns, columns[c])
    ELSE PartialCol(columns, name, c + 1)

RECURSIVE PartialPass(_, _, _)
PartialPass(columns, possible_names, n) ==
    IF n > Len(possible_names) THEN 0
    ELSE IF PartialCol(columns, possible_names[n], 1) # 0
         THEN PartialCol(columns, possible_names[n], 1)
    ELSE PartialPass(columns, possible_names, n + 1)

\* the three passes made for each name in turn, not each pass over all names
RECURSIVE suggest_column_by_name(_, _)
suggest_column_by_name(columns, possible_names) ==
    IF Len(possible_names) = 0 THEN 0
    ELSE LET one == <<possible_names[1]>>
             hit == IF ExactPass(columns, one, 1) # 0 THEN ExactPass(columns, one, 1)
                    ELSE IF LowerEqPass(columns, one, 1) # 0 THEN LowerEqPass(columns, one, 1)
                    ELSE PartialPass(columns, one, 1)
         IN IF hit # 0 THEN hit ELSE suggest_column_by_name(columns, Tail(possible_names))

suggest_column(columns, possible_names) ==
    IF ExactPass(columns, possible_names, 1) # 0
    THEN ExactPass(columns, possible_names, 1)
    ELSE IF LowerEqPass(columns, possible_names, 1) # 0
    THEN LowerEqPass(columns, possible_names, 1)
    ELSE PartialPass(columns, possible_names, 1)

---------------------------------------------------------------------------
(* DataFrames *)

Range(seq) == {seq[i] : i \in 1..Len(seq)}

NoFrame == [columns |-> <<>>, rows |-> <<>>]

\* the values of one column, in row order
Column(df, c) == [i \in 1..Len(df.rows) |-> df.rows[i][c]]

\* df[mask]: the rows satisfying Keep, in order
FilterRows(rows, Keep(_)) == SelectSeq(rows, Keep)

\* df[c] = values: the column is appended if new and replaced otherwise
WithColumn(df, c, values) ==
    [columns |-> IF c \in Range(df.columns) THEN df.columns ELSE Append(df.columns, c),
     rows |-> [i \in 1..Len(df.rows) |->
                 [x \in Range(df.columns) \cup {c} |->
                     IF x = c THEN values[i] ELSE df.rows[i][x]]]]

\* dtype of a column of a frame read from a file or built by Series.apply:
\* object when it has no rows or holds a str, otherwise the type of its values
Dtype(df, c) ==
    LET col == Column(df, c)
        kinds == {col[i].k : i \in 1..Len(col)} \ {"null"}
    IN IF Len(col) = 0 \/ "str" \in kinds THEN "object"
       ELSE IF "ts" \in kinds THEN "datetime64"
       ELSE IF kinds = {} THEN "float64"
       ELSE "numeric"

\* dtype of Series.apply(self._parse_date): datetime64 as soon as one value
\* parsed, object when every value is None or there is no value
ParsedDtype(df, c) ==
    IF \E i \in 1..Len(df.rows) : df.rows[i][c].k = "ts" THEN "datetime64" ELSE "object"

---------------------------------------------------------------------------
(* Timestamp accessors *)

\* <<year, month, day>> of a day number (inverse of DaysFromCivil)
CivilFromDays(z0) ==
    LET z == z0 + 719468
        era == z \div 146097
        doe == z - era * 146097
        yoe == (doe - doe \div 1460 + doe \div 36524 - doe \div 146096) \div 365
        doy == doe - (365 * yoe + yoe \div 4 - yoe \div 100)
        mp == (5 * doy + 2) \div 153
        d == doy - (153 * mp + 2) \div 5 + 1
        m == IF mp < 10 THEN mp + 3 ELSE mp - 9
        y == yoe + era * 400 + (IF m <= 2 THEN 1 ELSE 0)
    IN <<y, m, d>>

\* "%0<width>d" % n
RECURSIVE ZeroPad(_, _)
ZeroPad(n, width) ==
    IF width = 0 THEN ""
    ELSE ZeroPad(n \div 10, width - 1) \o CharAt(DigitChars, (n % 10) + 1)

\* .dt.month, .dt.year, .dt.strftime('%Y-%m'), .dt.to_period('Q').astype(str)
DtMonth(t) == IF IsNa(t) THEN Null ELSE Num(CivilFromDays(t.v[1])[2])
DtYear(t) == IF IsNa(t) THEN Null ELSE Num(CivilFromDays(t.v[1])[1])
DtYearMonth(t) ==
    IF IsNa(t) THEN Null
    ELSE LET ymd == CivilFromDays(t.v[1])
         IN Str(ZeroPad(ymd[1], 4) \o "-" \o ZeroPad(ymd[2], 2))
DtQuarter(t) ==
    IF IsNa(t) THEN Str("NaT")
    ELSE LET ymd == CivilFromDays(t.v[1])
         IN Str(ZeroPad(ymd[1], 4) \o "Q" \o ZeroPad((ymd[2] + 2) \div 3, 1))

\* (decision - application).dt.total_seconds(); NaN when a date is NaT
TotalSeconds(decision, application) ==
    IF IsNa(decision) \/ IsNa(application) THEN Null
    ELSE Num((decision.v[1] - application.v[1]) * SecondsPerDay
             + (decision.v[2] - application.v[2]))

---------------------------------------------------------------------------
(* The rows of the raw tables *)

MainColumns ==
    << "application_id", "application_date", "decision_date", "status",
       "loan_amount", "rejection_reason" >>

RawRow(id, app, dec, st, amount, reason) ==
    [c \in Range(MainColumns) |->
        CASE c = "application_id" -> id
          [] c = "application_date" -> app
          [] c = "decision_date" -> dec
          [] c = "status" -> st
          [] c = "loan_amount" -> amount
          [] c = "rejection_reason" -> reason]

\* The rows raw tables are made of: a decision 15 days after the application;
\* a decision before the application; a decision exactly 365 days after it; one
\* 365 days and a second after it, with a status holding an approval and a
\* rejection term; an application date that is no date and no decision; a date
\* that does not exist and a missing status; an empty status.
RowPool ==
    << RawRow(Num(1), Str("2024-01-05"), Str("2024-01-20"), Str("Approved"),
              Num(5000), Null),
       RawRow(Num(2), Str("15/01/2024"), Str("2024-01-10"), Str("DECLINED - low score"),
              Num(12000), Str("Low Credit Score")),
       RawRow(Num(3), Str("2023-01-01"), Str("2024-01-01"), Str("Rejected"),
              Num(800), Str("Other")),
       RawRow(Num(4), Str("Jan 1 2023"), Str("2024-01-01 00:00:01"),
              Str("Not Approved - Rejected"), Str("12k"), Null),
       RawRow(Num(5), Str("pending"), Null, Str("In Review"), Null, Null),
       RawRow(Num(6), Str("2024-02-30"), Str("2024-03-01"), Null,
              Num(300), Str("Other")),
       RawRow(Num(7), Str("2024-04-10"), Str("2024-04-10"), Str(""),
              Num(100), Null) >>

\* Series.apply(f) over the cells a column of these tables can hold: the
\* graph of f as a set of <<argument, value>> pairs, computed once
DateCells ==
    {RowPool[i][c] : i \in 1..Len(RowPool), c \in {"application_date", "decision_date"}}
StatusCells == {RowPool[i]["status"] : i \in 1..Len(RowPool)}

ValueAt(graph, x) == (CHOOSE p \in graph : p[1] = x)[2]

apply_parse_date == {<<c, _parse_date(c)>> : c \in DateCells}
apply_standardize_status == {<<c, _standardize_status(c)>> : c \in StatusCells}

---------------------------------------------------------------------------
(* DataProcessor.preprocess_data *)

\* the standard names, in the order the callers write the mapping dict
StdNames ==
    << "application_id", "application_date", "decision_date", "status",
       "loan_amount", "income", "credit_score", "rejection_reason" >>

\* "if col_name": None and '' are falsy
Truthy(c) == c.k = "str" /\ c.v # ""

\* {std_name: col_name for ... if col_name}, as the sequence of its keys
mapped_columns(mapping) ==
    SelectSeq(StdNames, LAMBDA f : f \in DOMAIN mapping /\ Truthy(mapping[f]))

\* processed_df[std_name] = df[orig_name], for every mapped column
CopyMapped(raw, mapping) ==
    LET cols == mapped_columns(mapping)
    IN [columns |-> cols,
        rows |-> IF cols = <<>> THEN <<>>
                 ELSE [i \in 1..Len(raw.rows) |->
                         [f \in Range(cols) |-> raw.rows[i][mapping[f].v]]]]

\* processed_df[col] = processed_df[col].apply(self._parse_date)
ConvertDates(df) ==
    LET conv(d, c) ==
            IF c \in Range(d.columns)
            THEN WithColumn(d, c, [i \in 1..Len(d.rows) |-> ValueAt(apply_parse_date, d.rows[i][c])])
            ELSE d
    IN conv(conv(df, "application_date"), "decision_date")

\* processed_df['status_standardized'] = processed_df['status'].apply(...)
StandardizeStatus(df) ==
    IF "status" \in Range(df.columns)
    THEN WithColumn(df, "status_standardized",
             [i \in 1..Len(df.rows) |-> Str(ValueAt(apply_standardize_status, df.rows[i]["status"]))])
    ELSE df

\* the clamp without the upper limit
ClampProcessingTimeNoUpper(t) ==
    IF IsNa(t) THEN Null
    ELSE IF t.v < 0 THEN Null
    ELSE t

\* the value left in processing_time_days: negative and > 365 days become NaN
ClampProcessingTime(t) ==
    IF IsNa(t) THEN Null
    ELSE IF t.v < 0 THEN Null
    ELSE IF t.v > 365 * SecondsPerDay THEN Null
    ELSE t

ProcessingTime(df) ==
    WithColumn(df, "processing_time_days",
        [i \in 1..Len(df.rows) |->
            ClampProcessingTime(
                TotalSeconds(df.rows[i]["decision_date"], df.rows[i]["application_date"]))])

PeriodKeys(df) ==
    LET app(i) == df.rows[i]["application_date"]
        m == WithColumn(df, "application_month", [i \in 1..Len(df.rows) |-> DtMonth(app(i))])
        y == WithColumn(m, "application_year", [i \in 1..Len(df.rows) |-> DtYear(app(i))])
    IN WithColumn(y, "application_yearmonth",
                  [i \in 1..Len(df.rows) |-> DtYearMonth(app(i))])

\* The subtraction of two date columns and the .dt accessor need datetime64
\* columns.  A column in which no cell parsed is an object column: with rows
\* the subtraction raises TypeError, without rows .dt raises AttributeError.
DatetimeError(df) == IF Len(df.rows) = 0 THEN "AttributeError" ELSE "TypeError"

\* a mapped column that the raw table lacks: df[orig_name] raises KeyError
MissingColumn(raw, mapping) ==
    \E f \in Range(mapped_columns(mapping)) : mapping[f].v \notin Range(raw.columns)

\* "if 'application_date' in processed_df.columns", and the same for decision_date
HasDateColumn(df, c) == c \in Range(df.columns)

\* the derived columns: processing time when both dates are there, period
\* keys when the application date is there
DerivedColumns(df) ==
    IF ~HasDateColumn(df, "application_date") THEN df
    ELSE IF HasDateColumn(df, "decision_date") THEN PeriodKeys(ProcessingTime(df))
    ELSE PeriodKeys(df)

\* the exception the derived columns raise on a frame, "none" if none
DerivedColumnsError(df) ==
    IF ~HasDateColumn(df, "application_date") THEN "none"
    ELSE IF HasDateColumn(df, "decision_date")
            /\ (ParsedDtype(df, "application_date") = "object"
                \/ ParsedDtype(df, "decision_date") = "object")
         THEN DatetimeError(df)
    ELSE IF ParsedDtype(df, "application_date") = "object" THEN "AttributeError"
    ELSE "none"

\* the steps after the status column, on the frame they are given
FinishPreprocess(df) ==
    IF DerivedColumnsError(df) # "none"
    THEN [exc |-> DerivedColumnsError(df), df |-> NoFrame]
    ELSE [exc |-> "none", df |-> DerivedColumns(df)]

\* the outcome of preprocess_data: the exception raised ("none" if none) and
\* the processed frame
preprocess_data(raw, mapping) ==
    IF MissingColumn(raw, mapping) THEN [exc |-> "KeyError", df |-> NoFrame]
    ELSE FinishPreprocess(StandardizeStatus(ConvertDates(CopyMapped(raw, mapping))))

---------------------------------------------------------------------------
(* Ordering of group keys, numbers *)

\* the characters of the texts handled here, in code-point order
CodePoints == " -/0123456789:ABCDEFGHIJKLMNOPQRSTUVWXYZ_abcdefghijklmnopqrstuvwxyz"

RECURSIVE StrLess(_, _)
StrLess(a, b) ==
    IF Len(b) = 0 THEN FALSE
    ELSE IF Len(a) = 0 THEN TRUE
    ELSE LET x == IndexIn(CodePoints, CharAt(a, 1), 1)
             y == IndexIn(CodePoints, CharAt(b, 1), 1)
         IN IF x # y THEN x < y
            ELSE StrLess(SubSeq(a, 2, Len(a)), SubSeq(b, 2, Len(b)))

\* sort order of the keys of a groupby: numbers before texts
CellLess(a, b) ==
    IF a.k # b.k THEN a.k = "num" \/ (a.k = "ts" /\ b.k = "str")
    ELSE IF a.k = "num" THEN a.v < b.v
    ELSE IF a.k = "ts" THEN a.v[1] < b.v[1] \/ (a.v[1] = b.v[1] /\ a.v[2] < b.v[2])
    ELSE StrLess(a.v, b.v)

RECURSIVE SortCells(_)
SortCells(S) ==
    IF S = {} THEN <<>>
    ELSE LET m == CHOOSE x \in S : \A y \in S \ {x} : CellLess(x, y)
         IN <<m>> \o SortCells(S \ {m})

\* the keys df.groupby(c) iterates over: the distinct non-missing values, sorted
GroupKeys(rows, c) ==
    SortCells({rows[i][c] : i \in 1..Len(rows)} \ {Null})

RECURSIVE SumSeq(_)
SumSeq(q) == IF Len(q) = 0 THEN 0 ELSE q[1] + SumSeq(Tail(q))

RECURSIVE SortInts(_)
SortInts(q) ==
    IF Len(q) = 0 THEN <<>>
    ELSE LET i == CHOOSE i \in 1..Len(q) : \A j \in 1..Len(q) : q[i] <= q[j]
         IN <<q[i]>> \o SortInts(SubSeq(q, 1, i - 1) \o SubSeq(q, i + 1, Len(q)))

\* a quotient of two integers that the code leaves as a float
Rat(n, d) == [num |-> n, den |-> d]

\* round(n / d) to the nearest integer, halves to even (numpy's round)
RoundDiv(n, d) ==
    LET q == n \div d
        r == n % d
    IN IF 2 * r < d THEN q
       ELSE IF 2 * r > d THEN q + 1
       ELSE IF q % 2 = 0 THEN q ELSE q + 1

---------------------------------------------------------------------------
(* DataProcessor.get_approval_rate *)

NotProcessed == "ValueError: Data has not been processed yet"

Raise(e) == [exc |-> e, value |-> <<>>, df |-> NoFrame]
Return(v, d) == [exc |-> "none", value |-> v, df |-> d]

\* the method working on self.data itself instead of a copy
AfterCopyAlias(self_data, df) == <<df>>

\* df = self.data.copy(): what self.data holds after the method worked on df
AfterCopy(self_data, df) == self_data

\* the column get_approval_rate groups by ("" for the overall rate)
\* the choice with group_by looked at before the time period
GrouperGroupByFirst(df, group_by, time_period) ==
    LET cols == Range(df.columns)
    IN IF ~IsNa(group_by) /\ group_by.v \in cols THEN group_by.v
       ELSE IF time_period = Str("monthly") /\ "application_yearmonth" \in cols
            THEN "application_yearmonth"
       ELSE IF time_period = Str("quarterly") /\ "application_date" \in cols
            THEN "quarter"
       ELSE IF time_period = Str("yearly") /\ "application_year" \in cols
            THEN "application_year"
       ELSE ""

Grouper(df, group_by, time_period) ==
    LET cols == Range(df.columns)
    IN IF time_period = Str("monthly") /\ "application_yearmonth" \in cols
            THEN "application_yearmonth"
       ELSE IF time_period = Str("quarterly") /\ "application_date" \in cols
            THEN "quarter"
       ELSE IF time_period = Str("yearly") /\ "application_year" \in cols
            THEN "application_year"
       ELSE IF ~IsNa(group_by) /\ group_by.v \in cols THEN group_by.v
       ELSE ""

\* the overall row without the guard; Rat(n, 0) is the division by zero
OverallRateNoGuard(df) ==
    LET total == Len(df.rows)
        approved == Len(FilterRows(df.rows,
                        LAMBDA r : r["status_standardized"] = Str("approved")))
    IN << [key |-> Null, total_applications |-> total, approved |-> approved,
           approval_rate |-> Rat(approved, total)] >>

\* the overall row: approved / total if total > 0 else 0
OverallRate(df) ==
    LET total == Len(df.rows)
        approved == Len(FilterRows(df.rows,
                        LAMBDA r : r["status_standardized"] = Str("approved")))
    IN << [key |-> Null, total_applications |-> total, approved |-> approved,
           approval_rate |-> IF total > 0 THEN Rat(approved, total) ELSE Rat(0, 1)] >>

\* one row per group: size, approved count, approved / size
GroupedRate(df, grouper) ==
    LET keys == GroupKeys(df.rows, grouper)
        grp(k) == FilterRows(df.rows, LAMBDA r : r[grouper] = k)
        appr(k) == Len(FilterRows(grp(k),
                        LAMBDA r : r["status_standardized"] = Str("approved")))
    IN [i \in 1..Len(keys) |->
          [key |-> keys[i], total_applications |-> Len(grp(keys[i])),
           approved |-> appr(keys[i]),
           approval_rate |-> Rat(appr(keys[i]), Len(grp(keys[i])))]]

get_approval_rate(self_data, group_by, time_period) ==
    IF self_data = <<>> THEN Raise(NotProcessed)
    ELSE LET df0 == self_data[1]
             grouper == Grouper(df0, group_by, time_period)
             df == IF grouper = "quarter"
                   THEN WithColumn(df0, "quarter",
                            [i \in 1..Len(df0.rows) |->
                                DtQuarter(df0.rows[i]["application_date"])])
                   ELSE df0
         IN IF "status_standardized" \notin Range(df.columns) THEN Raise("KeyError")
            ELSE IF grouper = ""
                 THEN Return([grouper |-> "", rows |-> OverallRate(df)], df)
            ELSE Return([grouper |-> grouper, rows |-> GroupedRate(df, grouper)], df)

---------------------------------------------------------------------------
(* DataProcessor.get_processing_time_stats *)

\* count, mean, median, min, max of the processing times of some rows (all
\* non-missing); times are in seconds, see the head of the module.  std_days
\* is a square root and is not represented.
TimeStats(key, rows) ==
    LET xs == SortInts([i \in 1..Len(rows) |-> rows[i]["processing_time_days"].v])
        n == Len(xs)
    IN IF n = 0
       THEN [key |-> key, count |-> 0, mean_days |-> Null, median_days |-> Null,
             min_days |-> Null, max_days |-> Null]
       ELSE [key |-> key, count |-> n, mean_days |-> Rat(SumSeq(xs), n),
             median_days |-> IF n % 2 = 1 THEN Rat(xs[(n + 1) \div 2], 1)
                             ELSE Rat(xs[n \div 2] + xs[n \div 2 + 1], 2),
             min_days |-> Num(xs[1]), max_days |-> Num(xs[n])]

get_processing_time_stats(self_data, group_by) ==
    IF self_data = <<>> THEN Raise(NotProcessed)
    ELSE IF "processing_time_days" \notin Range(self_data[1].columns)
         THEN Raise("ValueError: Processing time not calculated")
    ELSE LET df0 == self_data[1]
             df == [df0 EXCEPT !.rows =
                        FilterRows(df0.rows, LAMBDA r : ~IsNa(r["processing_time_days"]))]
         IN IF ~IsNa(group_by) /\ group_by.v \in Range(df.columns)
            THEN LET keys == GroupKeys(df.rows, group_by.v)
                 IN Return([grouper |-> group_by.v,
                            rows |-> [i \in 1..Len(keys) |->
                                TimeStats(keys[i],
                                    FilterRows(df.rows, LAMBDA r : r[group_by.v] = keys[i]))]],
                           df)
            ELSE Return([grouper |-> "", rows |-> <<TimeStats(Null, df.rows)>>], df)

---------------------------------------------------------------------------
(* DataProcessor.get_rejection_factors *)

\* Series.value_counts(): the distinct values by decreasing count, equal
\* counts in order of first appearance
RECURSIVE FirstSeen(_, _)
FirstSeen(q, seen) ==
    IF Len(q) = 0 THEN <<>>
    ELSE IF q[1] \in seen THEN FirstSeen(Tail(q), seen)
    ELSE <<q[1]>> \o FirstSeen(Tail(q), seen \cup {q[1]})

CountOf(q, x) == Cardinality({i \in 1..Len(q) : q[i] = x})

RECURSIVE ByCountDesc(_, _)
ByCountDesc(vals, q) ==
    IF Len(vals) = 0 THEN <<>>
    ELSE LET i == CHOOSE i \in 1..Len(vals) :
                    /\ \A j \in 1..Len(vals) : CountOf(q, vals[i]) >= CountOf(q, vals[j])
                    /\ \A j \in 1..(i - 1) : CountOf(q, vals[j]) < CountOf(q, vals[i])
         IN <<vals[i]>> \o ByCountDesc(SubSeq(vals, 1, i - 1) \o SubSeq(vals, i + 1, Len(vals)), q)

\* the distinct values with their counts, left in order of first appearance
value_counts_first_seen(q) ==
    LET vals == FirstSeen(q, {})
    IN [i \in 1..Len(vals) |-> [value |-> vals[i], count |-> CountOf(q, vals[i])]]

value_counts(q) ==
    LET vals == ByCountDesc(FirstSeen(q, {}), q)
    IN [i \in 1..Len(vals) |-> [value |-> vals[i], count |-> CountOf(q, vals[i])]]

\* DataFrame.head(n)
Head_n(q, n) == SubSeq(q, 1, IF n < Len(q) THEN n ELSE Len(q))

\* percentage is kept in hundredths of a percent: (count / total * 100).round(2)
\* the query without its check that the data was processed
get_rejection_factors_unchecked(self_data, n_top) ==
    Return([columns |-> <<"reason", "count", "percentage">>, rows |-> <<>>], NoFrame)

get_rejection_factors(self_data, n_top) ==
    IF self_data = <<>> THEN Raise(NotProcessed)
    ELSE LET df == self_data[1]
         IN IF "status_standardized" \notin Range(df.columns) THEN Raise("KeyError")
            ELSE IF "rejection_reason" \notin Range(df.columns)
                 THEN Return([columns |-> <<"reason", "count", "percentage">>, rows |-> <<>>], df)
            ELSE LET rejected == FilterRows(df.rows,
                            LAMBDA r : r["status_standardized"] = Str("rejected")
                                       /\ ~IsNa(r["rejection_reason"]))
                     rejection_counts ==
                         value_counts([i \in 1..Len(rejected) |-> rejected[i]["rejection_reason"]])
                     total_rejections ==
                         SumSeq([i \in 1..Len(rejection_counts) |-> rejection_counts[i].count])
                     table == [i \in 1..Len(rejection_counts) |->
                                 [reason |-> rejection_counts[i].value,
                                  count |-> rejection_counts[i].count,
                                  percentage |-> RoundDiv(rejection_counts[i].count * 10000,
                                                          total_rejections)]]
                 IN Return([columns |-> <<"reason", "count", "percentage">>,
                            rows |-> Head_n(table, n_top)], df)

---------------------------------------------------------------------------
(* DataProcessor.get_correlation_factors, get_loan_amount_analysis *)

potential_factors == <<"loan_amount", "income", "credit_score", "processing_time_days">>

\* pd.api.types.is_numeric_dtype(df[col])
IsNumericDtype(df, c) == Dtype(df, c) \in {"numeric", "float64"}

\* Series.corr with the 0/1 approval indicator: the sign of the Pearson
\* coefficient, or "nan" when it is undefined (fewer than two rows, or a
\* constant series)
CorrSign(xs, ys) ==
    LET n == Len(xs)
        sx == SumSeq(xs)
        sy == SumSeq(ys)
        sxy == SumSeq([i \in 1..n |-> xs[i] * ys[i]])
        cov == n * sxy - sx * sy
        constant(q) == \A i \in 1..n : q[i] = q[1]
    IN IF n < 2 \/ constant(xs) \/ constant(ys) THEN "nan"
       ELSE IF cov > 0 THEN "positive"
       ELSE IF cov < 0 THEN "negative"
       ELSE "zero"

get_correlation_factors(self_data) ==
    IF self_data = <<>> THEN Raise(NotProcessed)
    ELSE IF "status_standardized" \notin Range(self_data[1].columns) THEN Raise("KeyError")
    ELSE LET df0 == self_data[1]
             df == WithColumn(df0, "is_approved",
                       [i \in 1..Len(df0.rows) |->
                           Num(IF df0.rows[i]["status_standardized"] = Str("approved")
                               THEN 1 ELSE 0)])
             factors == SelectSeq(potential_factors,
                            LAMBDA c : c \in Range(df.columns) /\ IsNumericDtype(df, c))
             temp_df(c) == FilterRows(df.rows, LAMBDA r : ~IsNa(r[c]))
             corr(c) == CorrSign([i \in 1..Len(temp_df(c)) |-> temp_df(c)[i][c].v],
                                 [i \in 1..Len(temp_df(c)) |-> temp_df(c)[i]["is_approved"].v])
             kept == SelectSeq(factors, LAMBDA c : Len(temp_df(c)) > 0)
         \* pd.DataFrame(correlations) of an empty list has no column
         IN Return([columns |-> IF Len(factors) > 0 /\ Len(kept) = 0 THEN <<>>
                                ELSE <<"factor", "correlation_with_approval">>,
                    rows |-> [i \in 1..Len(kept) |->
                                [factor |-> kept[i],
                                 correlation_with_approval |-> corr(kept[i])]]], df)

\* count, mean, median, min, max of the loan amounts of one status
AmountStats(status, rows) ==
    LET some == FilterRows(rows, LAMBDA r : ~IsNa(r["loan_amount"]))
        xs == SortInts([i \in 1..Len(some) |-> some[i]["loan_amount"].v])
        n == Len(xs)
    IN IF n = 0
       THEN [status |-> status, count |-> 0, mean |-> Null, median |-> Null,
             min |-> Null, max |-> Null]
       ELSE [status |-> status, count |-> n, mean |-> Rat(SumSeq(xs), n),
             median |-> IF n % 2 = 1 THEN Rat(xs[(n + 1) \div 2], 1)
                        ELSE Rat(xs[n \div 2] + xs[n \div 2 + 1], 2),
             min |-> Num(xs[1]), max |-> Num(xs[n])]

\* the analysis without its check that the loan_amount column is there
get_loan_amount_analysis_no_column_check(self_data) ==
    IF self_data = <<>> THEN Raise(NotProcessed)
    ELSE IF "loan_amount" \notin Range(self_data[1].columns) THEN Raise("KeyError")
    ELSE IF "status_standardized" \notin Range(self_data[1].columns) THEN Raise("KeyError")
    ELSE IF Len(self_data[1].rows) > 0 /\ ~IsNumericDtype(self_data[1], "loan_amount")
         THEN Raise("TypeError")
    ELSE Return([columns |-> <<"status", "count", "mean", "median", "min", "max">>,
                 rows |-> [i \in 1..Len(GroupKeys(self_data[1].rows, "status_standardized")) |->
                     AmountStats(GroupKeys(self_data[1].rows, "status_standardized")[i],
                         FilterRows(self_data[1].rows,
                             LAMBDA r : r["status_standardized"] =
                                 GroupKeys(self_data[1].rows, "status_standardized")[i]))]],
                self_data[1])

\* a loan_amount column holding a text cannot be averaged: the aggregation raises
get_loan_amount_analysis(self_data) ==
    IF self_data = <<>> THEN Raise(NotProcessed)
    ELSE LET df == self_data[1]
             cols == <<"status", "count", "mean", "median", "min", "max">>
         IN IF "loan_amount" \notin Range(df.columns)
            THEN Return([columns |-> cols, rows |-> <<>>], df)
            ELSE IF "status_standardized" \notin Range(df.columns) THEN Raise("KeyError")
            ELSE IF Len(df.rows) > 0 /\ ~IsNumericDtype(df, "loan_amount")
                 THEN Raise("TypeError")
            ELSE LET keys == GroupKeys(df.rows, "status_standardized")
                 IN Return([columns |-> cols,
                            rows |-> [i \in 1..Len(keys) |->
                                AmountStats(keys[i],
                                    FilterRows(df.rows,
                                        LAMBDA r : r["status_standardized"] = keys[i]))]], df)

---------------------------------------------------------------------------
(* calculate_summary_metrics (src/statistics.py) and the rejection rate *)

\* mean and median of the non-missing processing times, 0 when there is none
AvgTime(rows) ==
    LET some == FilterRows(rows, LAMBDA r : ~IsNa(r["processing_time_days"]))
    IN IF Len(some) = 0 THEN Rat(0, 1)
       ELSE TimeStats(Null, some).mean_days

MedianTime(rows) ==
    LET some == FilterRows(rows, LAMBDA r : ~IsNa(r["processing_time_days"]))
    IN IF Len(some) = 0 THEN Rat(0, 1)
       ELSE TimeStats(Null, some).median_days

\* DataFrame.empty: no rows or no columns
IsEmpty(df) == Len(df.rows) = 0 \/ Len(df.columns) = 0

\* the summary with the total taken after dropping the rows without a
\* processing time
calculate_summary_metrics_dropna(view) ==
    IF view = <<>> \/ IsEmpty(view[1])
    THEN [total_applications |-> 0, approved_count |-> 0, rejected_count |-> 0,
          overall_approval_rate |-> Rat(0, 1),
          avg_processing_time |-> Rat(0, 1), median_processing_time |-> Rat(0, 1)]
    ELSE LET df == view[1]
             hasStatus == "status_standardized" \in Range(df.columns)
             hasTime == "processing_time_days" \in Range(df.columns)
             total == IF hasTime
                      THEN Len(FilterRows(df.rows, LAMBDA r : ~IsNa(r["processing_time_days"])))
                      ELSE Len(df.rows)
             approved == IF hasStatus
                         THEN Len(FilterRows(df.rows,
                                  LAMBDA r : r["status_standardized"] = Str("approved")))
                         ELSE 0
             rejected == IF hasStatus
                         THEN Len(FilterRows(df.rows,
                                  LAMBDA r : r["status_standardized"] = Str("rejected")))
                         ELSE 0
         IN [total_applications |-> total, approved_count |-> approved,
             rejected_count |-> rejected,
             overall_approval_rate |->
                 IF hasStatus /\ total > 0 THEN Rat(approved, total) ELSE Rat(0, 1),
             avg_processing_time |-> IF hasTime THEN AvgTime(df.rows) ELSE Rat(0, 1),
             median_processing_time |-> IF hasTime THEN MedianTime(df.rows) ELSE Rat(0, 1)]

calculate_summary_metrics(view) ==
    IF view = <<>> \/ IsEmpty(view[1])
    THEN [total_applications |-> 0, approved_count |-> 0, rejected_count |-> 0,
          overall_approval_rate |-> Rat(0, 1),
          avg_processing_time |-> Rat(0, 1), median_processing_time |-> Rat(0, 1)]
    ELSE LET df == view[1]
             total == Len(df.rows)
             hasStatus == "status_standardized" \in Range(df.columns)
             hasTime == "processing_time_days" \in Range(df.columns)
             approved == IF hasStatus
                         THEN Len(FilterRows(df.rows,
                                  LAMBDA r : r["status_standardized"] = Str("approved")))
                         ELSE 0
             rejected == IF hasStatus
                         THEN Len(FilterRows(df.rows,
                                  LAMBDA r : r["status_standardized"] = Str("rejected")))
                         ELSE 0
         IN [total_applications |-> total, approved_count |-> approved,
             rejected_count |-> rejected,
             overall_approval_rate |->
                 IF hasStatus /\ total > 0 THEN Rat(approved, total) ELSE Rat(0, 1),
             avg_processing_time |-> IF hasTime THEN AvgTime(df.rows) ELSE Rat(0, 1),
             median_processing_time |-> IF hasTime THEN MedianTime(df.rows) ELSE Rat(0, 1)]

\* rejected_count / total_applications if total_applications > 0 else 0
rejection_rate(rejected_count, total_applications) ==
    IF total_applications > 0 THEN Rat(rejected_count, total_applications) ELSE Rat(0, 1)

---------------------------------------------------------------------------
(* Inputs *)

\* largest number of rows of a raw table
MaxRows == 2

\* the sequences of at most n pool indices, in increasing order
RECURSIVE IndexSeqs(_)
IndexSeqs(n) ==
    IF n = 0 THEN {<<>>}
    ELSE LET shorter == IndexSeqs(n - 1)
         IN shorter \cup
            {Append(q, i) : q \in {x \in shorter : Len(x) = n - 1}, i \in 1..Len(RowPool)}

SortedIndexSeqs(n) ==
    {q \in IndexSeqs(n) : \A i \in 1..(Len(q) - 1) : q[i] < q[i + 1]}

\* raw tables with the main columns
MainTables ==
    {[columns |-> MainColumns, rows |-> [i \in 1..Len(q) |-> RowPool[q[i]]]] :
        q \in SortedIndexSeqs(MaxRows)}

\* raw tables of other sources, header only
HeaderTables ==
    {[columns |-> h, rows |-> <<>>] :
        h \in { <<"Application_ID", "App Date", "decision_date", "Status">>,
                <<"loan status", "Status", "STATUS", "ID", "id_number", "id">>,
                <<"Loan Amount", "FICO Score", "Notes", "date">> }}

RawTables == MainTables \cup HeaderTables

\* a mapping dict; None for the fields left out
Mapping(id, app, dec, st, amount, reason) ==
    [f \in Range(StdNames) |->
        CASE f = "application_id" -> id
          [] f = "application_date" -> app
          [] f = "decision_date" -> dec
          [] f = "status" -> st
          [] f = "loan_amount" -> amount
          [] f = "rejection_reason" -> reason
          [] OTHER -> Null]

\* the mappings set_column_mapping is called with: everything mapped; the
\* required fields only; no status; no dates; no decision date; columns of
\* another source
MappingPool ==
    { Mapping(Str("application_id"), Str("application_date"), Str("decision_date"),
              Str("status"), Str("loan_amount"), Str("rejection_reason")),
      Mapping(Str("application_id"), Str("application_date"), Str("decision_date"),
              Str("status"), Null, Null),
      Mapping(Str("application_id"), Str("application_date"), Str("decision_date"),
              Str(""), Str("loan_amount"), Null),
      Mapping(Str("application_id"), Null, Null,
              Str("status"), Str("loan_amount"), Str("rejection_reason")),
      Mapping(Str("application_id"), Str("application_date"), Null,
              Str("status"), Null, Str("rejection_reason")),
      Mapping(Str("Application_ID"), Null, Null, Str("Status"), Null, Null) }

\* the pattern lists of the column mapping page (src/app.py) and others
PatternPool ==
    { <<"application_id", "loan_id", "id", "app_id">>,
      <<"application_date", "app_date", "date", "submission_date">>,
      <<"decision_date", "approval_date", "completed_date">>,
      <<"status", "decision", "approval_status", "result">>,
      <<"loan_amount", "amount", "requested_amount">>,
      <<"income", "annual_income", "yearly_income", "monthly_income">>,
      <<"credit_score", "fico", "credit", "score">>,
      <<"rejection_reason", "decline_reason", "reason", "notes">>,
      <<"application_id", "loan_id", "id">>,
      <<"Id", "id">>,
      <<"number", "STATUS">>,
      <<>> }

\* suggest_column over the column lists and pattern lists above, computed once
apply_suggest_column ==
    {<<a, suggest_column(a[1], a[2])>> : a \in {t.columns : t \in RawTables} \X PatternPool}

GroupByPool == {Null, Str("rejection_reason"), Str("branch")}
TimePeriodPool == {Null, Str("monthly"), Str("quarterly"), Str("yearly"), Str("weekly")}
NTopPool == {1, 10}

---------------------------------------------------------------------------
(* The DataProcessor and its callers *)

EmptyDict == [f \in {} |-> Null]

Call(op, args, exc, value) ==
    [op |-> op, args |-> args, exc |-> exc, value |-> value,
     again |-> result.op = op /\ result.args = args /\ result.exc = "none"]

\* DataProcessor(data): raw_data is a copy of the table, nothing is processed
Init ==
    /\ raw_data \in RawTables
    /\ column_mapping = EmptyDict
    /\ data = <<>>
    /\ result = [op |-> "__init__", args |-> <<>>, exc |-> "none", value |-> <<>>,
                 again |-> FALSE]
    /\ session_state = NoSession
    /\ uploaded_file = NoFile

SuggestColumn(possible_names) ==
    /\ result' = Call("suggest_column", possible_names, "none",
                      ValueAt(apply_suggest_column, <<raw_data.columns, possible_names>>))
    /\ UNCHANGED <<raw_data, column_mapping, data, session_state, uploaded_file>>

SetColumnMapping(mapping) ==
    /\ column_mapping' = mapping
    /\ result' = Call("set_column_mapping", <<>>, "none", <<>>)
    /\ UNCHANGED <<raw_data, data, session_state, uploaded_file>>

\* the new rows added to the table already stored
StoreProcessedAppend(self_data, processed_df) ==
    IF self_data = <<>> THEN <<processed_df>>
    ELSE <<[processed_df EXCEPT !.rows = self_data[1].rows \o processed_df.rows]>>

\* self.data = processed_df
StoreProcessed(self_data, processed_df) == <<processed_df>>

PreprocessData ==
    LET r == preprocess_data(raw_data, column_mapping)
    IN /\ data' = IF r.exc = "none" THEN StoreProcessed(data, r.df) ELSE data
       /\ result' = Call("preprocess_data", <<>>, r.exc, r.df)
       /\ UNCHANGED <<raw_data, column_mapping, session_state, uploaded_file>>

\* a metric query: its outcome r, and self.data once it has worked on its copy
Query(op, args, r) ==
    /\ data' = IF r.exc = "none" THEN AfterCopy(data, r.df) ELSE data
    /\ result' = Call(op, args, r.exc, r.value)
    /\ UNCHANGED <<raw_data, column_mapping, session_state, uploaded_file>>

GetApprovalRate(group_by, time_period) ==
    Query("get_approval_rate", <<group_by, time_period>>,
          get_approval_rate(data, group_by, time_period))

GetProcessingTimeStats(group_by) ==
    Query("get_processing_time_stats", <<group_by>>,
          get_processing_time_stats(data, group_by))

GetRejectionFactors(n_top) ==
    Query("get_rejection_factors", <<n_top>>, get_rejection_factors(data, n_top))

GetCorrelationFactors ==
    Query("get_correlation_factors", <<>>, get_correlation_factors(data))

GetLoanAmountAnalysis ==
    Query("get_loan_amount_analysis", <<>>, get_loan_amount_analysis(data))

\* a page computing the summary of the processor's table
CalculateSummaryMetrics ==
    /\ result' = Call("calculate_summary_metrics", <<>>, "none",
                      calculate_summary_metrics(data))
    /\ UNCHANGED <<raw_data, column_mapping, data, session_state, uploaded_file>>

Next ==
    \/ \E p \in PatternPool : SuggestColumn(p)
    \/ \E m \in MappingPool : SetColumnMapping(m)
    \/ PreprocessData
    \/ \E g \in GroupByPool, t \in TimePeriodPool : GetApprovalRate(g, t)
    \/ \E g \in GroupByPool : GetProcessingTimeStats(g)
    \/ \E n \in NTopPool : GetRejectionFactors(n)
    \/ GetCorrelationFactors
    \/ GetLoanAmountAnalysis
    \/ CalculateSummaryMetrics

Spec == Init /\ [][Next]_vars

---------------------------------------------------------------------------
(* statistics.detect_trends *)

\* The values of a time series are kept in hundredths: Num(42) is 0.42.  The
\* ratios computed from them are quotients Rat(n, d).

\* stats.mannkendall(values): scipy.stats has no attribute mannkendall, the
\* lookup raises AttributeError before anything is computed
stats_mannkendall(values) == [raised |-> "AttributeError", trend |-> 0, p_value |-> Rat(0, 1)]

insufficient_data ==
    [trend |-> "insufficient data", p_value |-> Null, confidence |-> Null,
     recent_change |-> Null]

\* DataFrame.empty: no row or no column
Empty(df) == Len(df.rows) = 0 \/ Len(df.columns) = 0

\* time_series_data[value_col].dropna().values
DropnaValues(df, c) ==
    LET kept == SelectSeq(df.rows, LAMBDA r : ~IsNa(r[c]))
    IN [i \in 1..Len(kept) |-> kept[i][c].v]

\* (b - a) / a if a != 0 else 0
ChangeRatio(a, b) == IF a # 0 THEN Rat(b - a, a) ELSE Rat(0, 1)

\* the body of the try block once the test has returned trend and p_value
TestBranch(values, trend, p_value) ==
    LET n == Len(values)
    IN [trend |-> IF trend > 0 THEN "increasing"
                  ELSE IF trend < 0 THEN "decreasing" ELSE "stable",
        p_value |-> p_value,
        confidence |-> IF p_value.num * 100 <= 5 * p_value.den THEN "high"
                       ELSE IF p_value.num * 10 <= p_value.den THEN "moderate"
                       ELSE "low",
        recent_change |-> IF n >= 3 THEN ChangeRatio(values[n - 2], values[n]) ELSE Null]

\* the except block with the direction taken whatever the size of the slope
FallbackBranchNoThreshold(values) ==
    LET n == Len(values)
    IN [trend |-> IF values[n] - values[1] > 0 THEN "increasing"
                  ELSE IF values[n] - values[1] < 0 THEN "decreasing"
                  ELSE "stable",
        p_value |-> Null,
        confidence |-> "low",
        recent_change |-> ChangeRatio(values[1], values[n])]

\* the except block: slope = (values[-1] - values[0]) / (len(values) - 1),
\* compared with 0.01 and -0.01 (one hundredth)
FallbackBranch(values) ==
    LET n == Len(values)
    IN IF n >= 2
       THEN [trend |-> IF values[n] - values[1] > n - 1 THEN "increasing"
                       ELSE IF values[n] - values[1] < -(n - 1) THEN "decreasing"
                       ELSE "stable",
             p_value |-> Null,
             confidence |-> "low",
             recent_change |-> ChangeRatio(values[1], values[n])]
       ELSE insufficient_data

\* detect_trends asking for two values only
detect_trends_two_values(time_series_data, value_col) ==
    IF time_series_data = <<>> THEN insufficient_data
    ELSE IF Empty(time_series_data[1]) THEN insufficient_data
    ELSE IF value_col \notin Range(time_series_data[1].columns) THEN insufficient_data
    ELSE IF Len(DropnaValues(time_series_data[1], value_col)) < 2 THEN insufficient_data
    ELSE FallbackBranch(DropnaValues(time_series_data[1], value_col))

detect_trends(time_series_data, value_col) ==
    IF time_series_data = <<>> THEN insufficient_data
    ELSE IF Empty(time_series_data[1]) THEN insufficient_data
    ELSE IF value_col \notin Range(time_series_data[1].columns) THEN insufficient_data
    ELSE IF Len(DropnaValues(time_series_data[1], value_col)) < 3 THEN insufficient_data
    ELSE IF stats_mannkendall(DropnaValues(time_series_data[1], value_col)).raised # "none"
         THEN FallbackBranch(DropnaValues(time_series_data[1], value_col))
    ELSE TestBranch(DropnaValues(time_series_data[1], value_col),
                    stats_mannkendall(DropnaValues(time_series_data[1], value_col)).trend,
                    stats_mannkendall(DropnaValues(time_series_data[1], value_col)).p_value)

\* The time series handed to detect_trends: every series of at most MaxSeries
\* cells drawn from a missing value, 0, 0.40 and 0.42, and five longer or
\* constant ones, as the approval_rate column of a table by period; a table
\* without rows, a table without columns, and no table at all.
MaxSeries == 4

SeriesCells == {Null, Num(0), Num(40), Num(42)}

NumSeq(q) == [i \in 1..Len(q) |-> Num(q[i])]

SeriesPool ==
    UNION {[1..n -> SeriesCells] : n \in 0..MaxSeries}
    \cup { NumSeq(<<40, 42, 45, 47, 50>>), NumSeq(<<50, 50, 50>>),
           NumSeq(<<50, 47, 45, 42, 40>>), NumSeq(<<0, 40, 42, 45, 50>>),
           <<Num(40), Null, Num(41), Num(45), Null, Num(43)>> }

SeriesFrame(q) ==
    [columns |-> <<"application_yearmonth", "approval_rate">>,
     rows |-> [i \in 1..Len(q) |->
                 [c \in {"application_yearmonth", "approval_rate"} |->
                     IF c = "approval_rate" THEN q[i] ELSE Num(i)]]]

TimeSeriesPool == {<<>>, <<NoFrame>>} \cup {<<SeriesFrame(q)>> : q \in SeriesPool}

ValueColPool == {"approval_rate", "mean_days"}

\* a page asking for the trend of a series
DetectTrends(time_series_data, value_col) ==
    /\ result' = Call("detect_trends", <<time_series_data, value_col>>, "none",
                      detect_trends(time_series_data, value_col))
    /\ UNCHANGED <<raw_data, column_mapping, data, session_state, uploaded_file>>

\* the pages calling detect_trends on the series they computed
TrendInit ==
    /\ raw_data = NoFrame
    /\ column_mapping = EmptyDict
    /\ data = <<>>
    /\ result = [op |-> "__init__", args |-> <<>>, exc |-> "none", value |-> <<>>,
                 again |-> FALSE]
    /\ session_state = NoSession
    /\ uploaded_file = NoFile

TrendNext == \E t \in TimeSeriesPool, c \in ValueColPool : DetectTrends(t, c)

TrendSpec == TrendInit /\ [][TrendNext]_vars

---------------------------------------------------------------------------
(* statistics.identify_bottlenecks *)

\* str(n) of a natural number
RECURSIVE IntStr(_)
IntStr(n) ==
    IF n < 10 THEN CharAt(DigitChars, n + 1)
    ELSE IntStr(n \div 10) \o CharAt(DigitChars, (n % 10) + 1)

\* f"{x:.1f}" of the quotient x = n / d, d > 0
Fixed1(n, d) ==
    IF n < 0 THEN "-" \o IntStr(RoundDiv(-n * 10, d) \div 10) \o "."
                      \o IntStr(RoundDiv(-n * 10, d) % 10)
    ELSE IntStr(RoundDiv(n * 10, d) \div 10) \o "." \o IntStr(RoundDiv(n * 10, d) % 10)

\* four times Series.quantile(p / 4) of sorted values (linear interpolation)
Quantile4(xs, p) ==
    IF (p * (Len(xs) - 1)) % 4 = 0 THEN 4 * xs[(p * (Len(xs) - 1)) \div 4 + 1]
    ELSE 4 * xs[(p * (Len(xs) - 1)) \div 4 + 1]
         + ((p * (Len(xs) - 1)) % 4)
           * (xs[(p * (Len(xs) - 1)) \div 4 + 2] - xs[(p * (Len(xs) - 1)) \div 4 + 1])

\* the values above q3 + 1.5 * (q3 - q1)
Outliers(xs) ==
    {i \in 1..Len(xs) : 8 * xs[i] > 5 * Quantile4(xs, 3) - 3 * Quantile4(xs, 1)}

\* the check reporting outliers from one tenth of the values on
ProcessingTimeOutliersFromTenth(processing_time) ==
    IF Len(processing_time) = 0 THEN <<>>
    ELSE IF Cardinality(Outliers(processing_time)) * 100 >= 10 * Len(processing_time)
    THEN << [type |-> "processing_time",
             description |-> "Significant processing time outliers detected ("
                 \o Fixed1(Cardinality(Outliers(processing_time)) * 100, Len(processing_time))
                 \o "% of applications)",
             severity |-> IF Cardinality(Outliers(processing_time)) * 100
                               > 20 * Len(processing_time)
                          THEN "high" ELSE "medium"] >>
    ELSE <<>>

\* outlier_percent = len(outliers) / len(processing_time) * 100, over 10 and 20
ProcessingTimeOutliers(processing_time) ==
    IF Len(processing_time) = 0 THEN <<>>
    ELSE IF Cardinality(Outliers(processing_time)) * 100 > 10 * Len(processing_time)
    THEN << [type |-> "processing_time",
             description |-> "Significant processing time outliers detected ("
                 \o Fixed1(Cardinality(Outliers(processing_time)) * 100, Len(processing_time))
                 \o "% of applications)",
             severity |-> IF Cardinality(Outliers(processing_time)) * 100
                               > 20 * Len(processing_time)
                          THEN "high" ELSE "medium"] >>
    ELSE <<>>

\* the check with the top reason reported from one half of the rejections on
DominantReasonFromHalf(counts, total) ==
    IF Len(counts) = 0 THEN <<>>
    ELSE IF counts[1].count * 100 >= 50 * total
    THEN << [type |-> "rejection_reason",
             description |-> "'" \o PyStr(counts[1].value) \o "' accounts for "
                 \o Fixed1(counts[1].count * 100, total) \o "% of rejections",
             severity |-> IF counts[1].count * 100 > 70 * total THEN "high" ELSE "medium"] >>
    ELSE <<>>

\* top_reason_pct = value_counts(normalize=True).iloc[0] * 100, over 50 and 70
DominantReason(counts, total) ==
    IF Len(counts) = 0 THEN <<>>
    ELSE IF counts[1].count * 100 > 50 * total
    THEN << [type |-> "rejection_reason",
             description |-> "'" \o PyStr(counts[1].value) \o "' accounts for "
                 \o Fixed1(counts[1].count * 100, total) \o "% of rejections",
             severity |-> IF counts[1].count * 100 > 70 * total THEN "high" ELSE "medium"] >>
    ELSE <<>>

\* rejected['rejection_reason'].dropna() of the rejected rows
RejectionReasons(df) ==
    LET rejected == FilterRows(df.rows,
                        LAMBDA r : r["status_standardized"] = Str("rejected")
                                   /\ ~IsNa(r["rejection_reason"]))
    IN [i \in 1..Len(rejected) |-> rejected[i]["rejection_reason"]]

\* data.groupby('application_yearmonth').size(), by month
MonthlyVolume(df) ==
    LET keys == GroupKeys(df.rows, "application_yearmonth")
    IN [i \in 1..Len(keys) |->
          Cardinality({j \in 1..Len(df.rows) : df.rows[j]["application_yearmonth"] = keys[i]})]

\* the months whose volume changed by more than 30% from the month before
SignificantChanges(volume) ==
    {i \in 2..Len(volume) :
        \/ 10 * (volume[i] - volume[i - 1]) > 3 * volume[i - 1]
        \/ 10 * (volume[i - 1] - volume[i]) > 3 * volume[i - 1]}

\* more than two months being needed, a bottleneck for the months that changed
VolumeFluctuation(volume) ==
    IF Len(volume) > 2 /\ SignificantChanges(volume) # {}
    THEN << [type |-> "volume_fluctuation",
             description |-> "Significant monthly volume fluctuations detected in "
                 \o IntStr(Cardinality(SignificantChanges(volume))) \o " months",
             severity |-> "medium"] >>
    ELSE <<>>

identify_bottlenecks(view) ==
    IF view = <<>> THEN <<>>
    ELSE IF Empty(view[1]) THEN <<>>
    ELSE (IF "processing_time_days" \in Range(view[1].columns)
          THEN ProcessingTimeOutliers(SortInts(DropnaValues(view[1], "processing_time_days")))
          ELSE <<>>)
         \o (IF "rejection_reason" \in Range(view[1].columns)
                /\ "status_standardized" \in Range(view[1].columns)
             THEN DominantReason(value_counts(RejectionReasons(view[1])),
                                 Len(RejectionReasons(view[1])))
             ELSE <<>>)
         \o (IF "application_yearmonth" \in Range(view[1].columns)
             THEN VolumeFluctuation(MonthlyVolume(view[1]))
             ELSE <<>>)

---------------------------------------------------------------------------
(* Tables of rejections *)

\* the numbers of rejected rows with the reason 'Low Credit Score', with the
\* reason 'Other' and with no reason, of approved rows, and of rows decided
\* before they were applied for, in a table
MaxLow == 7
MaxOther == 4
MaxNoReason == 1
MaxApproved == 1
MaxBackdated == 1

Repeat(row, n) == [i \in 1..n |-> row]

RejectedRow(reason) ==
    RawRow(Num(2), Str("2024-01-05"), Str("2024-01-20"), Str("Rejected"), Num(800), reason)

ApprovedRow ==
    RawRow(Num(1), Str("2023-01-01"), Str("2024-01-01"), Str("Approved"), Num(5000), Null)

\* a row of a third month whose processing time is negative, hence missing
BackdatedRow ==
    RawRow(Num(3), Str("2024-04-10"), Str("2024-03-01"), Str("Approved"), Num(5000), Null)

\* the rows of a table: the two reasons in either order, then the rejections
\* without a reason, then the approvals, then the backdated rows
RejectionRows(low, other, none, approved, backdated, low_first) ==
    (IF low_first
     THEN Repeat(RejectedRow(Str("Low Credit Score")), low)
          \o Repeat(RejectedRow(Str("Other")), other)
     ELSE Repeat(RejectedRow(Str("Other")), other)
          \o Repeat(RejectedRow(Str("Low Credit Score")), low))
    \o Repeat(RejectedRow(Null), none) \o Repeat(ApprovedRow, approved)
    \o Repeat(BackdatedRow, backdated)

RejectionTables ==
    {[columns |-> MainColumns, rows |-> RejectionRows(l, o, n, a, b, f)] :
        l \in 0..MaxLow, o \in 0..MaxOther, n \in 0..MaxNoReason,
        a \in 0..MaxApproved, b \in 0..MaxBackdated, f \in BOOLEAN}
    \ {[columns |-> MainColumns, rows |-> <<>>]}

\* everything mapped, and everything but the rejection reason
RejectionMappings ==
    { Mapping(Str("application_id"), Str("application_date"), Str("decision_date"),
              Str("status"), Str("loan_amount"), Str("rejection_reason")),
      Mapping(Str("application_id"), Str("application_date"), Str("decision_date"),
              Str("status"), Str("loan_amount"), Null) }

\* a page looking for bottlenecks in the processor's table
IdentifyBottlenecks ==
    /\ result' = Call("identify_bottlenecks", <<>>, "none", identify_bottlenecks(data))
    /\ UNCHANGED <<raw_data, column_mapping, data, session_state, uploaded_file>>

RejectionInit ==
    /\ raw_data \in RejectionTables
    /\ column_mapping = EmptyDict
    /\ data = <<>>
    /\ result = [op |-> "__init__", args |-> <<>>, exc |-> "none", value |-> <<>>,
                 again |-> FALSE]
    /\ session_state = NoSession
    /\ uploaded_file = NoFile

RejectionNext ==
    \/ \E m \in RejectionMappings : SetColumnMapping(m)
    \/ PreprocessData
    \/ \E n \in NTopPool : GetRejectionFactors(n)
    \/ IdentifyBottlenecks

RejectionSpec == RejectionInit /\ [][RejectionNext]_vars

---------------------------------------------------------------------------
(* utils.filter_dataframe *)

\* a value of the filters dict: a list or tuple of items, or one value
ListValue(items) == [kind |-> "list", items |-> items]
ScalarValue(c) == [kind |-> "scalar", items |-> <<c>>]

\* x >= bound raises TypeError when x and the bound are of different types;
\* a missing x compares False without raising
Incomparable(cell, bound) == ~IsNa(cell) /\ cell.k # bound.k

\* (df[column] >= start) & (df[column] <= end) raises
RangeRaises(df, column, start, end) ==
    \E i \in 1..Len(df.rows) :
        \/ Incomparable(df.rows[i][column], start)
        \/ Incomparable(df.rows[i][column], end)

CellLessEq(a, b) == a = b \/ CellLess(a, b)

\* df[(df[column] >= start) & (df[column] <= end)]
RangeRows(df, column, start, end) ==
    [df EXCEPT !.rows = SelectSeq(df.rows, LAMBDA r :
        /\ ~IsNa(r[column])
        /\ CellLessEq(start, r[column])
        /\ CellLessEq(r[column], end))]

\* pd.api.types.is_datetime64_any_dtype(df[column]), for a column of a
\* processed table that still has a row with a date
IsDatetimeColumn(df, column) ==
    \E i \in 1..Len(df.rows) : df.rows[i][column].k = "ts"

\* the range filter: outside the try for a datetime column, and skipped by
\* the bare except when the comparison raises for another column
RangeFilter(df, column, start, end) ==
    IF IsDatetimeColumn(df, column)
    THEN IF RangeRaises(df, column, start, end)
         THEN [exc |-> "TypeError", df |-> df]
         ELSE [exc |-> "none", df |-> RangeRows(df, column, start, end)]
    ELSE IF RangeRaises(df, column, start, end)
         THEN [exc |-> "none", df |-> df]
         ELSE [exc |-> "none", df |-> RangeRows(df, column, start, end)]

\* df[df[column].isin(value)]
IsinFilter(df, column, items) ==
    [df EXCEPT !.rows = SelectSeq(df.rows, LAMBDA r : r[column] \in Range(items))]

\* df[df[column] == value]
EqFilter(df, column, value) ==
    [df EXCEPT !.rows = SelectSeq(df.rows, LAMBDA r : ~IsNa(r[column]) /\ r[column] = value)]

\* the body of the loop over filters.items()
ApplyFilter(df, column, value) ==
    IF column \notin Range(df.columns) THEN [exc |-> "none", df |-> df]
    ELSE IF value.kind = "list" /\ Len(value.items) = 2
    THEN RangeFilter(df, column, value.items[1], value.items[2])
    ELSE IF value.kind = "scalar" /\ IsNa(value.items[1])
    THEN [exc |-> "none", df |-> df]
    ELSE IF value.kind = "list"
    THEN [exc |-> "none", df |-> IsinFilter(df, column, value.items)]
    ELSE [exc |-> "none", df |-> EqFilter(df, column, value.items[1])]

\* for column, value in filters.items(), from the i-th item on
RECURSIVE FilterLoop(_, _, _)
FilterLoop(filtered_df, filters, i) ==
    IF i > Len(filters) THEN [exc |-> "none", df |-> filtered_df]
    ELSE IF ApplyFilter(filtered_df, filters[i][1], filters[i][2]).exc # "none"
    THEN ApplyFilter(filtered_df, filters[i][1], filters[i][2])
    ELSE FilterLoop(ApplyFilter(filtered_df, filters[i][1], filters[i][2]).df, filters, i + 1)

\* filter_dataframe(df, filters): filters is the dict as the sequence of its
\* items; df itself is returned when it is None or there is no filter
filter_dataframe(df, filters) ==
    IF df = <<>> \/ Len(filters) = 0 THEN [exc |-> "none", value |-> df]
    ELSE IF FilterLoop(df[1], filters, 1).exc # "none"
    THEN [exc |-> FilterLoop(df[1], filters, 1).exc, value |-> <<>>]
    ELSE [exc |-> "none", value |-> <<FilterLoop(df[1], filters, 1).df>>]

\* the rows of the tables filtered, and the most rows of a table
FilterRowPool == <<RowPool[1], RowPool[3], RowPool[4], RowPool[7]>>
MaxFilterRows == 3

RECURSIVE PickRows(_, _, _)
PickRows(rows, S, i) ==
    IF i > Len(rows) THEN <<>>
    ELSE (IF i \in S THEN <<rows[i]>> ELSE <<>>) \o PickRows(rows, S, i + 1)

FilterTables ==
    {[columns |-> MainColumns, rows |-> PickRows(FilterRowPool, S, 1)] :
        S \in {T \in SUBSET (1..Len(FilterRowPool)) : Cardinality(T) <= MaxFilterRows}}

FilterMapping ==
    Mapping(Str("application_id"), Str("application_date"), Str("decision_date"),
            Str("status"), Str("loan_amount"), Str("rejection_reason"))

\* (pd.Timestamp(start_date), pd.Timestamp(end_date) + timedelta(days=1)
\*  - timedelta(microseconds=1)), to the second
DateRange(start_day, end_day) ==
    <<"application_date", ListValue(<<Ts(start_day, 0), Ts(end_day, SecondsPerDay - 1)>>)>>

DateFilters == {DateRange(19727, 19727), DateRange(19358, 19823)}

\* the selections of the status multiselect
StatusFilters ==
    {<<"status_standardized", ListValue(s)>> :
        s \in { <<Str("approved")>>, <<Str("rejected")>>,
                <<Str("approved"), Str("rejected")>>,
                <<Str("rejected"), Str("approved")>>,
                <<Str("rejected"), Str("approved"), Str("other")>> }}

\* the range of the loan amount slider
LoanAmountFilter == <<"loan_amount", ListValue(<<Num(1000), Num(6000)>>)>>

OtherFilters ==
    { <<"status_standardized", ScalarValue(Str("approved"))>>,
      <<"status_standardized", ScalarValue(Null)>>,
      <<"branch", ListValue(<<Str("x")>>)>> }

FilterStatusPool ==
    { <<"status_standardized", ListValue(<<Str("rejected")>>)>>,
      <<"status_standardized", ScalarValue(Str("approved"))>> }

\* the filters dicts: none, one filter, a date range followed by a selection
\* or by the loan amount range, the loan amount range followed by a status
FilterPool ==
    {<<>>}
    \cup {<<f>> : f \in DateFilters \cup StatusFilters \cup OtherFilters \cup {LoanAmountFilter}}
    \cup {<<d, s>> : d \in DateFilters, s \in StatusFilters \cup {LoanAmountFilter}}
    \cup {<<LoanAmountFilter, s>> : s \in FilterStatusPool}

\* a page filtering the processor's table
FilterDataframe(filters) ==
    /\ result' = Call("filter_dataframe", <<filters, data>>,
                      filter_dataframe(data, filters).exc,
                      filter_dataframe(data, filters).value)
    /\ UNCHANGED <<raw_data, column_mapping, data, session_state, uploaded_file>>

\* the same filters applied to the table they returned
FilterFiltered ==
    /\ result.op = "filter_dataframe"
    /\ result.exc = "none"
    /\ result' = Call("filter_dataframe", <<result.args[1], result.value>>,
                      filter_dataframe(result.value, result.args[1]).exc,
                      filter_dataframe(result.value, result.args[1]).value)
    /\ UNCHANGED <<raw_data, column_mapping, data, session_state, uploaded_file>>

FilterInit ==
    /\ raw_data \in FilterTables
    /\ column_mapping = EmptyDict
    /\ data = <<>>
    /\ result = [op |-> "__init__", args |-> <<>>, exc |-> "none", value |-> <<>>,
                 again |-> FALSE]
    /\ session_state = NoSession
    /\ uploaded_file = NoFile

FilterNext ==
    \/ SetColumnMapping(FilterMapping)
    \/ PreprocessData
    \/ \E f \in FilterPool : FilterDataframe(f)
    \/ FilterFiltered

FilterSpec == FilterInit /\ [][FilterNext]_vars

---------------------------------------------------------------------------
(* statistics.generate_insights *)

\* str.replace('_', ' ')
RECURSIVE ReplaceUnderscores(_)
ReplaceUnderscores(s) ==
    IF Len(s) = 0 THEN ""
    ELSE (IF CharAt(s, 1) = "_" THEN " " ELSE CharAt(s, 1))
         \o ReplaceUnderscores(SubSeq(s, 2, Len(s)))

UpperChar(c) ==
    IF IndexIn(LowerChars, c, 1) = 0 THEN c
    ELSE CharAt(UpperChars, IndexIn(LowerChars, c, 1))

\* str.title(): a letter is upper case after a character that is no letter
\* and lower case after a letter
RECURSIVE TitleFrom(_, _)
TitleFrom(s, i) ==
    IF i > Len(s) THEN ""
    ELSE (IF i = 1 THEN UpperChar(CharAt(s, i))
          ELSE IF IsLetter(CharAt(s, i - 1)) THEN LowerChar(CharAt(s, i))
          ELSE UpperChar(CharAt(s, i)))
         \o TitleFrom(s, i + 1)

Title(s) == TitleFrom(s, 1)

Abs(n) == IF n < 0 THEN -n ELSE n

\* recent_change_pct = recent_change * 100, added when abs() of it is over 5
RecentChangeSuffix(recent_change) ==
    IF "num" \notin DOMAIN recent_change THEN ""
    ELSE IF Abs(recent_change.num) * 100 > 5 * Abs(recent_change.den)
    THEN " (recent change: "
         \o (IF recent_change.den < 0
             THEN Fixed1(-recent_change.num * 100, -recent_change.den)
             ELSE Fixed1(recent_change.num * 100, recent_change.den))
         \o "%)"
    ELSE ""

\* an insight dict; severity "" where the dict has no such key
Insight(category, description, severity) ==
    [category |-> category, description |-> description, severity |-> severity]

\* the insight of a trend (None or a dict of detect_trends), with the words
\* the sentence begins with
TrendInsights(category, subject, trend) ==
    IF trend = <<>> THEN <<>>
    ELSE IF trend[1].trend = "insufficient data" THEN <<>>
    ELSE << Insight(category,
                    subject \o " shows a " \o trend[1].trend \o " trend with "
                        \o trend[1].confidence \o " confidence"
                        \o RecentChangeSuffix(trend[1].recent_change),
                    "") >>

\* the bottleneck insights, last bottleneck first
BottleneckInsightsReversed(bottlenecks) ==
    [i \in 1..Len(bottlenecks) |->
        Insight("bottleneck", bottlenecks[Len(bottlenecks) + 1 - i].description,
                bottlenecks[Len(bottlenecks) + 1 - i].severity)]

\* for bottleneck in bottlenecks: insights.append(...)
BottleneckInsights(bottlenecks) ==
    [i \in 1..Len(bottlenecks) |->
        Insight("bottleneck", bottlenecks[i].description, bottlenecks[i].severity)]

\* data[[factor, 'status_standardized']].dropna()
FactorAndStatus(df, factor) ==
    SelectSeq(df.rows, LAMBDA r : ~IsNa(r[factor]) /\ ~IsNa(r["status_standardized"]))

FactorValues(df, factor) ==
    [i \in 1..Len(FactorAndStatus(df, factor)) |-> FactorAndStatus(df, factor)[i][factor].v]

\* (df_temp['status_standardized'] == 'approved').astype(int)
IsApproved(df, factor) ==
    [i \in 1..Len(FactorAndStatus(df, factor)) |->
        IF FactorAndStatus(df, factor)[i]["status_standardized"] = Str("approved")
        THEN 1 ELSE 0]

\* n * sum(x * y) - sum(x) * sum(y): the Pearson coefficient of xs and ys is
\* Covariance(xs, ys) / sqrt(Covariance(xs, xs) * Covariance(ys, ys))
Covariance(xs, ys) ==
    Len(xs) * SumSeq([i \in 1..Len(xs) |-> xs[i] * ys[i]]) - SumSeq(xs) * SumSeq(ys)

\* round(100 * abs(corr)), for a coefficient that is defined
CorrHundredths(xs, ys) ==
    CHOOSE r \in 0..100 :
        /\ r = 0 \/ (2 * r - 1) * (2 * r - 1) * Covariance(xs, xs) * Covariance(ys, ys)
                       <= 40000 * Covariance(xs, ys) * Covariance(xs, ys)
        /\ 40000 * Covariance(xs, ys) * Covariance(xs, ys)
               < (2 * r + 1) * (2 * r + 1) * Covariance(xs, xs) * Covariance(ys, ys)

\* f"{corr:.2f}"
Fixed2(hundredths, negative) ==
    (IF negative THEN "-" ELSE "") \o IntStr(hundredths \div 100) \o "."
    \o IntStr((hundredths \div 10) % 10) \o IntStr(hundredths % 10)

\* the insight of one factor: more than 10 rows, abs(corr) over 0.2, strong
\* over 0.5; corr is nan, and nothing is added, when a series is constant
FactorInsight(factor, xs, ys) ==
    IF /\ Len(xs) > 10
       /\ Covariance(xs, xs) > 0
       /\ Covariance(ys, ys) > 0
       /\ 25 * Covariance(xs, ys) * Covariance(xs, ys)
              > Covariance(xs, xs) * Covariance(ys, ys)
    THEN << Insight("correlation",
                    Title(ReplaceUnderscores(factor)) \o " shows a "
                        \o (IF 4 * Covariance(xs, ys) * Covariance(xs, ys)
                                  > Covariance(xs, xs) * Covariance(ys, ys)
                            THEN "strong" ELSE "moderate")
                        \o " "
                        \o (IF Covariance(xs, ys) > 0 THEN "positive" ELSE "negative")
                        \o " correlation ("
                        \o Fixed2(CorrHundredths(xs, ys), Covariance(xs, ys) < 0)
                        \o ") with approval rates",
                    "") >>
    ELSE <<>>

\* col in potential_factors if col in numeric_columns
AvailableFactor(df, factor) ==
    factor \in Range(df.columns) /\ IsNumericDtype(df, factor)

RECURSIVE CorrelationInsights(_, _)
CorrelationInsights(df, i) ==
    IF i > Len(potential_factors) THEN <<>>
    ELSE (IF AvailableFactor(df, potential_factors[i])
          THEN FactorInsight(potential_factors[i],
                             FactorValues(df, potential_factors[i]),
                             IsApproved(df, potential_factors[i]))
          ELSE <<>>)
         \o CorrelationInsights(df, i + 1)

\* bottlenecks None and [] are both the empty list
generate_insights(view, approval_trend, processing_time_trend, bottlenecks) ==
    IF view = <<>> THEN <<>>
    ELSE IF Empty(view[1]) THEN <<>>
    ELSE TrendInsights("approval_rate", "Approval rate", approval_trend)
         \o TrendInsights("processing_time", "Processing time", processing_time_trend)
         \o BottleneckInsights(bottlenecks)
         \o (IF "status_standardized" \in Range(view[1].columns)
             THEN CorrelationInsights(view[1], 1) ELSE <<>>)

---------------------------------------------------------------------------
(* statistics.generate_recommendations *)

Recommendation(category, description, priority) ==
    [category |-> category, description |-> description, priority |-> priority]

ApprovalRateRecommendations(category, description) ==
    IF category = "approval_rate" /\ Contains("decreasing", description)
    THEN << Recommendation("approval_rate",
                "Investigate reasons for declining approval rates and consider adjusting lending criteria or application processes",
                "high") >>
    ELSE <<>>

\* the two recommendations about processing time with their priorities swapped
ProcessingTimeRecommendationsSwapped(category, description) ==
    IF category = "processing_time" /\ Contains("increasing", description)
    THEN << Recommendation("processing_time",
                "Review and optimize loan processing workflow to reduce increasing processing times",
                "medium") >>
    ELSE IF category = "processing_time" /\ Contains("decreasing", description)
    THEN << Recommendation("processing_time",
                "Document and standardize recent process improvements that have led to reduced processing times",
                "high") >>
    ELSE <<>>

ProcessingTimeRecommendations(category, description) ==
    IF category = "processing_time" /\ Contains("increasing", description)
    THEN << Recommendation("processing_time",
                "Review and optimize loan processing workflow to reduce increasing processing times",
                "high") >>
    ELSE IF category = "processing_time" /\ Contains("decreasing", description)
    THEN << Recommendation("processing_time",
                "Document and standardize recent process improvements that have led to reduced processing times",
                "medium") >>
    ELSE <<>>

\* severity = insight.get('severity', 'medium')
BottleneckRecommendations(category, description, severity) ==
    IF category # "bottleneck" THEN <<>>
    ELSE (IF Contains("processing_time outliers", description)
          THEN << Recommendation("bottleneck",
                      "Implement process monitoring to identify and address applications with extended processing times",
                      IF severity = "high" THEN "high" ELSE "medium") >>
          ELSE <<>>)
         \o (IF Contains("rejection_reason", description)
             THEN << Recommendation("bottleneck",
                         "Focus on the dominant rejection reason to improve application quality or adjust lending criteria",
                         IF severity = "high" THEN "high" ELSE "medium") >>
             ELSE <<>>)
         \o (IF Contains("volume_fluctuation", description)
             THEN << Recommendation("bottleneck",
                         "Develop resource allocation strategy to better handle application volume fluctuations",
                         "medium") >>
             ELSE <<>>)

CorrelationRecommendations(category, description) ==
    IF category # "correlation" THEN <<>>
    ELSE (IF Contains("loan amount", Lower(description)) /\ Contains("negative", description)
          THEN << Recommendation("correlation",
                      "Review lending criteria for higher loan amounts to identify potential barriers to approval",
                      "medium") >>
          ELSE <<>>)
         \o (IF Contains("credit score", Lower(description)) /\ Contains("positive", description)
             THEN << Recommendation("correlation",
                         "Consider developing specialized products for different credit score segments",
                         "medium") >>
             ELSE <<>>)
         \o (IF Contains("income", Lower(description))
             THEN << Recommendation("correlation",
                         "Evaluate income verification procedures and requirements for potential optimization",
                         "medium") >>
             ELSE <<>>)

\* the body of the loop over the insights
InsightRecommendations(insight) ==
    ApprovalRateRecommendations(insight.category, insight.description)
    \o ProcessingTimeRecommendations(insight.category, insight.description)
    \o BottleneckRecommendations(insight.category, insight.description, insight.severity)
    \o CorrelationRecommendations(insight.category, insight.description)

RECURSIVE SpecificRecommendations(_, _)
SpecificRecommendations(insights, i) ==
    IF i > Len(insights) THEN <<>>
    ELSE InsightRecommendations(insights[i]) \o SpecificRecommendations(insights, i + 1)

GeneralRecommendations ==
    << Recommendation("general",
           "Implement regular data analysis reviews to track key metrics and identify trends early",
           "medium"),
       Recommendation("general",
           "Develop standardized reporting for loan origination performance to share with stakeholders",
           "medium") >>

\* if len(recommendations) < 3: the two general recommendations are added
WithGeneral(recommendations) ==
    IF Len(recommendations) < 3 THEN recommendations \o GeneralRecommendations
    ELSE recommendations

generate_recommendations(insights) ==
    IF Len(insights) = 0 THEN <<>>
    ELSE WithGeneral(SpecificRecommendations(insights, 1))

---------------------------------------------------------------------------
(* The insights page *)

\* the rows of the larger views
MaxInsightRows == 11

InsightColumns == <<"status_standardized", "loan_amount", "income">>

InsightRow(status, loan_amount, income) ==
    [c \in Range(InsightColumns) |->
        CASE c = "status_standardized" -> Str(status)
          [] c = "loan_amount" -> loan_amount
          [] c = "income" -> income]

\* the filtered views, by the columns generate_insights reads: none, one
\* without rows, one of two rows, one without status, and three of
\* MaxInsightRows rows of which five are rejected, whose loan amounts (1 or 2)
\* go with approval strongly, against it moderately, and hardly at all
InsightViews ==
    { <<>>,
      <<[columns |-> InsightColumns, rows |-> <<>>]>>,
      <<[columns |-> InsightColumns,
         rows |-> <<InsightRow("approved", Num(2), Num(2)),
                    InsightRow("rejected", Num(1), Null)>>]>>,
      <<[columns |-> <<"loan_amount">>,
         rows |-> Repeat([c \in {"loan_amount"} |-> Num(1)], MaxInsightRows)]>>,
      <<[columns |-> InsightColumns,
         rows |-> Repeat(InsightRow("approved", Num(2), Num(2)), MaxInsightRows - 5)
                  \o Repeat(InsightRow("rejected", Num(1), Num(1)), 5)]>>,
      <<[columns |-> InsightColumns,
         rows |-> Repeat(InsightRow("approved", Num(1), Null), MaxInsightRows - 7)
                  \o Repeat(InsightRow("approved", Num(2), Null), 2)
                  \o Repeat(InsightRow("rejected", Num(1), Null), 2)
                  \o Repeat(InsightRow("rejected", Num(2), Null), 3)]>>,
      <<[columns |-> InsightColumns,
         rows |-> Repeat(InsightRow("approved", Num(1), Null), MaxInsightRows - 8)
                  \o Repeat(InsightRow("approved", Num(2), Null), 3)
                  \o Repeat(InsightRow("rejected", Num(1), Null), 3)
                  \o Repeat(InsightRow("rejected", Num(2), Null), 2)]>> }

\* the trends handed over: None, the page's 'insufficient data', and what
\* detect_trends returns for a falling, two rising and a constant series
TrendPool ==
    {<<>>, <<insufficient_data>>}
    \cup {<<detect_trends(<<SeriesFrame(NumSeq(s))>>, "approval_rate")>> :
            s \in {<<42, 40, 0>>, <<0, 40, 42>>, <<40, 42, 50>>, <<40, 40, 40>>}}

\* the lists identify_bottlenecks returns: none, each bottleneck alone, the
\* three together, and a dominant reason whose text holds 'rejection_reason'
BottleneckPool ==
    { <<>>,
      ProcessingTimeOutliers(<<1, 1, 1, 1, 100>>),
      DominantReason(<<[value |-> Str("Low Credit Score"), count |-> 8],
                       [value |-> Str("Other"), count |-> 2]>>, 10),
      VolumeFluctuation(<<1, 2, 4>>),
      ProcessingTimeOutliers(<<1, 1, 1, 1, 1, 1, 1, 100, 100>>)
          \o DominantReason(<<[value |-> Str("Other"), count |-> 6],
                              [value |-> Str("Low Credit Score"), count |-> 4]>>, 10)
          \o VolumeFluctuation(<<4, 2, 2>>),
      DominantReason(<<[value |-> Str("rejection_reason missing"), count |-> 1]>>, 1) }

\* one run of the page script: the insights of the filtered view
GenerateInsights(view, approval_trend, processing_time_trend, bottlenecks) ==
    /\ result.op = "__init__"
    /\ result' = Call("generate_insights",
                      <<view, approval_trend, processing_time_trend, bottlenecks>>, "none",
                      generate_insights(view, approval_trend, processing_time_trend,
                                        bottlenecks))
    /\ UNCHANGED <<raw_data, column_mapping, data, session_state, uploaded_file>>

\* then recommendations = generate_recommendations(insights)
GenerateRecommendations ==
    /\ result.op = "generate_insights"
    /\ result' = Call("generate_recommendations", <<result.value>>, "none",
                      generate_recommendations(result.value))
    /\ UNCHANGED <<raw_data, column_mapping, data, session_state, uploaded_file>>

InsightsInit ==
    /\ raw_data = NoFrame
    /\ column_mapping = EmptyDict
    /\ data = <<>>
    /\ result = [op |-> "__init__", args |-> <<>>, exc |-> "none", value |-> <<>>,
                 again |-> FALSE]
    /\ session_state = NoSession
    /\ uploaded_file = NoFile

InsightsNext ==
    \/ \E v \in InsightViews, a \in TrendPool, p \in TrendPool, b \in BottleneckPool :
          GenerateInsights(v, a, p, b)
    \/ GenerateRecommendations

InsightsSpec == InsightsInit /\ [][InsightsNext]_vars

---------------------------------------------------------------------------
(* app.py and the availability check of the pages *)

\* the defaults app.py gives the keys that are not in the session state
WithDefaults(session) ==
    IF "data" \in DOMAIN session THEN session
    ELSE [data |-> <<>>, processor |-> "None", analysis_complete |-> FALSE,
          using_sample_data |-> FALSE]

\* get_sample_data() and the mapping app.py sets for it
SampleTable ==
    [columns |-> MainColumns,
     rows |-> <<ApprovedRow, RejectedRow(Str("Low Credit Score")), RejectedRow(Null)>>]

SampleMapping ==
    Mapping(Str("application_id"), Str("application_date"), Str("decision_date"),
            Str("status"), Str("loan_amount"), Str("rejection_reason"))

\* the files a user uploads
SessionFiles == FilterTables

\* what the select boxes of the column mapping hold when 'Process Data' is
\* clicked: every field chosen, and the status left at ''
SelectionPool ==
    { Mapping(Str("application_id"), Str("application_date"), Str("decision_date"),
              Str("status"), Str("loan_amount"), Str("rejection_reason")),
      Mapping(Str("application_id"), Str("application_date"), Str("decision_date"),
              Str(""), Str("loan_amount"), Str("")) }

\* all([app_id, app_date, decision_date, status])
RequiredSelected(selection) ==
    \A f \in {"application_id", "application_date", "decision_date", "status"} :
        Truthy(selection[f])

\* the dict handed to set_column_mapping: x if x else None for the optional fields
SelectedMapping(selection) ==
    [f \in DOMAIN selection |-> IF Truthy(selection[f]) THEN selection[f] ELSE Null]

\* the uploaded-file branch is taken
ReadsUpload(session, file) == file # NoFile /\ ~session.using_sample_data

\* the uploaded-file branch up to the column mapping: the table is read and
\* stored, and a new DataProcessor is stored in its place
StoreUpload(session, file) ==
    [session EXCEPT !.data = file, !.using_sample_data = FALSE,
                    !.processor = "DataProcessor"]

\* a run of app.py without a button clicked: the first visit, an upload, the
\* removal of the file, or any other rerun
RunApp(file) ==
    /\ uploaded_file' = file
    /\ IF ReadsUpload(WithDefaults(session_state), file)
       THEN /\ session_state' = StoreUpload(WithDefaults(session_state), file)
            /\ raw_data' = file[1]
            /\ column_mapping' = EmptyDict
            /\ data' = <<>>
       ELSE /\ session_state' = WithDefaults(session_state)
            /\ UNCHANGED <<raw_data, column_mapping, data>>
    /\ result' = Call("app", <<file>>, "none", <<>>)

\* 'Process Data' clicked: the run stores a new DataProcessor, and when the
\* required fields are chosen sets the mapping and preprocesses; an exception
\* is caught by the except of the branch; after a success analysis_complete is
\* set and st.rerun() runs app.py again, which stores a new DataProcessor
ProcessData(selection) ==
    /\ "data" \in DOMAIN session_state
    /\ ReadsUpload(session_state, uploaded_file)
    /\ raw_data' = uploaded_file[1]
    /\ data' = <<>>
    /\ UNCHANGED uploaded_file
    /\ IF ~RequiredSelected(selection)
       THEN /\ session_state' = StoreUpload(session_state, uploaded_file)
            /\ column_mapping' = EmptyDict
            /\ result' = Call("process_data", <<selection>>, "unmapped", <<>>)
       ELSE IF preprocess_data(uploaded_file[1], SelectedMapping(selection)).exc # "none"
       THEN /\ session_state' = StoreUpload(session_state, uploaded_file)
            /\ column_mapping' = SelectedMapping(selection)
            /\ result' = Call("process_data", <<selection>>,
                              preprocess_data(uploaded_file[1],
                                              SelectedMapping(selection)).exc, <<>>)
       ELSE /\ session_state' =
                  [StoreUpload(session_state, uploaded_file)
                      EXCEPT !.analysis_complete = TRUE]
            /\ column_mapping' = EmptyDict
            /\ result' = Call("process_data", <<selection>>, "none", <<>>)

\* 'Load Sample Data' clicked: the sample is stored and preprocessed, the
\* processor stored, and st.rerun() runs app.py again, which skips the
\* uploaded-file branch
LoadSampleData ==
    /\ preprocess_data(SampleTable, SampleMapping).exc = "none"
    /\ session_state' = [WithDefaults(session_state) EXCEPT
                            !.data = <<SampleTable>>, !.using_sample_data = TRUE,
                            !.processor = "DataProcessor", !.analysis_complete = TRUE]
    /\ raw_data' = SampleTable
    /\ column_mapping' = SampleMapping
    /\ data' = StoreProcessed(<<>>, preprocess_data(SampleTable, SampleMapping).df)
    /\ result' = Call("load_sample_data", <<>>, "none", <<>>)
    /\ UNCHANGED uploaded_file

\* the check at the top of every analysis page
DataAvailable(session) ==
    ~("data" \notin DOMAIN session \/ session.data = <<>> \/ "processor" \notin DOMAIN session)

\* an analysis page is opened
OpenPage ==
    /\ result' = Call("availability_check", <<>>, "none", <<DataAvailable(session_state)>>)
    /\ UNCHANGED <<raw_data, column_mapping, data, session_state, uploaded_file>>

SessionInit ==
    /\ raw_data = NoFrame
    /\ column_mapping = EmptyDict
    /\ data = <<>>
    /\ result = [op |-> "__init__", args |-> <<>>, exc |-> "none", value |-> <<>>,
                 again |-> FALSE]
    /\ session_state = NoSession
    /\ uploaded_file = NoFile

SessionNext ==
    \/ \E file \in {NoFile} \cup {<<f>> : f \in SessionFiles} : RunApp(file)
    \/ \E selection \in SelectionPool : ProcessData(selection)
    \/ LoadSampleData
    \/ OpenPage

SessionSpec == SessionInit /\ [][SessionNext]_vars

---------------------------------------------------------------------------
(* Properties *)

MetricOps ==
    {"get_approval_rate", "get_processing_time_stats", "get_rejection_factors",
     "get_correlation_factors", "get_loan_amount_analysis"}

\* preprocess_data has just returned the frame result.value
Processed == result.op = "preprocess_data" /\ result.exc = "none"

HasColumn(df, c) == c \in Range(df.columns)

\* decision - application of a processed row, in seconds
RowSeconds(r) ==
    (r["decision_date"].v[1] - r["application_date"].v[1]) * SecondsPerDay
    + (r["decision_date"].v[2] - r["application_date"].v[2])

BothDates(r) == ~IsNa(r["application_date"]) /\ ~IsNa(r["decision_date"])

OutOfRange(r) == RowSeconds(r) < 0 \/ RowSeconds(r) > 365 * SecondsPerDay

\* C1: in the table preprocess_data returns, processing_time_days is missing
\* or within 0..365 days in every row; a row whose dates are further apart
\* or in the wrong order is kept, in place, with the value missing; the table
\* has one row per raw row.
C1_ProcessingTimeInRange ==
    (Processed /\ HasColumn(result.value, "processing_time_days")) =>
        /\ Len(result.value.rows) = Len(raw_data.rows)
        /\ \A i \in 1..Len(result.value.rows) :
              LET r == result.value.rows[i]
                  p == r["processing_time_days"]
              IN /\ IsNa(p) \/ (p.v >= 0 /\ p.v <= 365 * SecondsPerDay)
                 /\ r["application_id"] = raw_data.rows[i]["application_id"]
                 /\ (BothDates(r) /\ OutOfRange(r)) => IsNa(p)
                 /\ (BothDates(r) /\ ~OutOfRange(r)) => p = Num(RowSeconds(r))

\* a table with a row decided more than 365 days after the application and a
\* row decided before it, both kept with the processing time missing
C1_Witness ==
    /\ Processed /\ HasColumn(result.value, "processing_time_days")
    /\ \E i, j \in 1..Len(result.value.rows) :
          /\ BothDates(result.value.rows[i]) /\ BothDates(result.value.rows[j])
          /\ RowSeconds(result.value.rows[i]) > 365 * SecondsPerDay
          /\ RowSeconds(result.value.rows[j]) < 0
          /\ IsNa(result.value.rows[i]["processing_time_days"])
          /\ IsNa(result.value.rows[j]["processing_time_days"])

ApprovalTermSet == {"approved", "accept", "funded", "complete"}
RejectionTermSet == {"rejected", "denied", "declined", "refuse"}

\* the class the rule of C2 gives the text of a status
TermClass(text) ==
    LET low == Lower(text)
    IN IF \E t \in ApprovalTermSet : Contains(t, low) THEN "approved"
       ELSE IF \E t \in RejectionTermSet : Contains(t, low) THEN "rejected"
       ELSE "other"

term_class == {<<c, TermClass(c.v)>> : c \in StatusCells \ {Null}}

C3_EmptyStatusUnknown ==
    (Processed /\ HasColumn(result.value, "status")) =>
        \A i \in 1..Len(result.value.rows) :
            LET st == result.value.rows[i]["status"]
            IN (IsNa(st) \/ st = Str("")) =>
                   result.value.rows[i]["status_standardized"] = Str("unknown")

RequiredFields == {"application_id", "application_date", "decision_date", "status"}

RequiredMapped(mapping) ==
    \A f \in RequiredFields : f \in DOMAIN mapping /\ Truthy(mapping[f])

\* C4: preprocess_data called while a required field is not mapped raises and
\* stores no table.
C4_UnmappedRequiredRaises ==
    (result.op = "preprocess_data" /\ ~RequiredMapped(column_mapping)) =>
        (result.exc # "none" /\ data # <<result.value>>)

\* C5: a metric query made while nothing has been processed raises the
\* "not processed" ValueError and leaves raw_data, column_mapping and data as
\* they were; preprocess_data returning leaves a table stored, the table never
\* goes back to None, and with a table stored no metric query raises that
\* error.
C5_QueriesNeedProcessedData ==
    [][ /\ (result'.op \in MetricOps /\ data = <<>>) =>
              (result'.exc = NotProcessed /\ UNCHANGED <<raw_data, column_mapping, data>>)
        /\ (result'.op \in MetricOps /\ data # <<>>) => result'.exc # NotProcessed
        /\ (result'.op = "preprocess_data" /\ result'.exc = "none") => data' # <<>>
        /\ data # <<>> => data' # <<>> ]_vars

\* a query was refused after the mapping was set but before any table was stored
C5_Witness ==
    /\ result.op \in MetricOps /\ result.exc = NotProcessed
    /\ data = <<>> /\ column_mapping # EmptyDict

\* the hits of the three tiers: <<position in the name list, column position>>
ExactHits(columns, names) ==
    {h \in (1..Len(names)) \X (1..Len(columns)) : names[h[1]] = columns[h[2]]}

LowerHits(columns, names) ==
    {h \in (1..Len(names)) \X (1..Len(columns)) :
        Lower(names[h[1]]) = Lower(columns[h[2]])}

PartialHits(columns, names) ==
    {h \in (1..Len(names)) \X (1..Len(columns)) :
        \/ Contains(Lower(names[h[1]]), Lower(columns[h[2]]))
        \/ Contains(Lower(columns[h[2]]), Lower(names[h[1]]))}

\* the column of the first hit: the earliest name, and its earliest column
FirstHit(hits) ==
    (CHOOSE h \in hits :
        \A g \in hits : h[1] < g[1] \/ (h[1] = g[1] /\ h[2] <= g[2]))[2]

TierChoice(columns, names) ==
    IF ExactHits(columns, names) # {} THEN FirstHit(ExactHits(columns, names))
    ELSE IF LowerHits(columns, names) # {} THEN FirstHit(LowerHits(columns, names))
    ELSE IF PartialHits(columns, names) # {} THEN FirstHit(PartialHits(columns, names))
    ELSE 0

tier_choice ==
    {<<a, TierChoice(a[1], a[2])>> : a \in {t.columns : t \in RawTables} \X PatternPool}

SpecColumns == <<"Application_ID", "App Date", "decision_date", "Status">>
SpecNames == <<"application_id", "loan_id", "id">>

\* C6: suggest_column returns the 1-based position of the first hit of the
\* highest tier that has a hit (exact, then case-insensitive, then substring
\* either way), names tried in list order within a tier, and 0 without a hit;
\* for the columns and names of the specification's example it returns
\* Application_ID, which no name matches exactly.
C6_SuggestByTier ==
    result.op = "suggest_column" =>
        /\ result.value = ValueAt(tier_choice, <<raw_data.columns, result.args>>)
        /\ (raw_data.columns = SpecColumns /\ result.args = SpecNames) =>
               /\ result.value = 1
               /\ ExactHits(SpecColumns, SpecNames) = {}

\* the example of the specification was evaluated
C6_Witness ==
    /\ result.op = "suggest_column"
    /\ raw_data.columns = SpecColumns /\ result.args = SpecNames
    /\ result.value = 1

RateSum(m) ==
    LET a == m.overall_approval_rate
        r == rejection_rate(m.rejected_count, m.total_applications)
    IN [num |-> a.num * r.den + r.num * a.den, den |-> a.den * r.den]

\* the view the summary was computed from is a canonical table
CanonicalView == data # <<>> /\ HasColumn(data[1], "status_standardized")

AllDecided ==
    \A i \in 1..Len(data[1].rows) :
        data[1].rows[i]["status_standardized"] \in {Str("approved"), Str("rejected")}

\* C8 as stated: approval rate + rejection rate is at most 1, and exactly 1
\* when every row is approved or rejected.
C8_RatesSumToOne ==
    (result.op = "calculate_summary_metrics" /\ CanonicalView) =>
        /\ RateSum(result.value).num <= RateSum(result.value).den
        /\ AllDecided => RateSum(result.value).num = RateSum(result.value).den

\* C8, amended: approval rate + rejection rate is at most 1, and exactly 1
\* when the view has at least one row and every row is approved or rejected.
C8_RatesSumToOneNonEmpty ==
    (result.op = "calculate_summary_metrics" /\ CanonicalView) =>
        /\ RateSum(result.value).num <= RateSum(result.value).den
        /\ (Len(data[1].rows) > 0 /\ AllDecided) =>
               RateSum(result.value).num = RateSum(result.value).den

\* the summary of a view holding an approved and a rejected row and no other
C8_Witness ==
    /\ result.op = "calculate_summary_metrics" /\ CanonicalView
    /\ AllDecided
    /\ result.value.approved_count > 0 /\ result.value.rejected_count > 0
    /\ RateSum(result.value).num = RateSum(result.value).den

C10_EarlierStagesUnchanged ==
    [][ /\ result'.op = "preprocess_data" => UNCHANGED <<raw_data, column_mapping>>
        /\ result'.op \in MetricOps => UNCHANGED <<data, raw_data, column_mapping>> ]_vars

\* the quarterly approval rate was returned and the stored table has no
\* quarter column
C10_Witness ==
    /\ result.op = "get_approval_rate" /\ result.exc = "none"
    /\ result.value.grouper = "quarter" /\ Len(result.value.rows) > 0
    /\ ~HasColumn(data[1], "quarter")

\* C11: preprocess_data on a table with rows, whose required fields are mapped
\* to columns of the table, does not raise whatever its date cells hold: it
\* keeps every row, and a row whose application date does not parse has a
\* missing application date, processing time and period keys.
C11_BadDatesNeverRaise ==
    (/\ result.op = "preprocess_data"
     /\ RequiredMapped(column_mapping)
     /\ ~MissingColumn(raw_data, column_mapping)
     /\ Len(raw_data.rows) > 0) =>
        /\ result.exc = "none"
        /\ Len(result.value.rows) = Len(raw_data.rows)
        /\ \A i \in 1..Len(raw_data.rows) :
              LET cell == raw_data.rows[i][column_mapping["application_date"].v]
                  row == result.value.rows[i]
              IN IsNa(_parse_date(cell)) =>
                    /\ IsNa(row["application_date"])
                    /\ IsNa(row["processing_time_days"])
                    /\ IsNa(row["application_month"])
                    /\ IsNa(row["application_year"])
                    /\ IsNa(row["application_yearmonth"])

---------------------------------------------------------------------------
(* Properties of detect_trends *)

\* the arguments of the detect_trends call that has just returned
TrendTable == result.args[1]
TrendColumn == result.args[2]

\* the number of non-missing values of the column asked for (0 when there is
\* no table or no such column)
NonMissingCount ==
    IF TrendTable = <<>> THEN 0
    ELSE IF TrendColumn \notin Range(TrendTable[1].columns) THEN 0
    ELSE Cardinality({i \in 1..Len(TrendTable[1].rows) :
                          TrendTable[1].rows[i][TrendColumn].k # "null"})

\* C12: detect_trends returns, without raising, the result 'insufficient data'
\* with p_value, confidence and recent_change None when there is no table, the
\* table is empty, the value column is absent or fewer than 3 values are left
\* once the missing ones are dropped; with 3 values or more it does not return
\* 'insufficient data'.
C12_InsufficientData ==
    result.op = "detect_trends" =>
        /\ result.exc = "none"
        /\ NonMissingCount < 3 =>
              result.value = [trend |-> "insufficient data", p_value |-> Null,
                              confidence |-> Null, recent_change |-> Null]
        /\ NonMissingCount >= 3 => result.value.trend # "insufficient data"

\* a table of three rows or more of which two values only are not missing
C12_Witness ==
    /\ result.op = "detect_trends"
    /\ TrendTable # <<>>
    /\ Len(TrendTable[1].rows) >= 3
    /\ NonMissingCount = 2
    /\ result.value.trend = "insufficient data"

\* the series of the specification's example
ExampleSeries == SeriesFrame(NumSeq(<<40, 42, 45, 47, 50>>))

\* C13: on the series 0.40, 0.42, 0.45, 0.47, 0.50 detect_trends returns the
\* trend 'increasing' with confidence 'high' or 'moderate'.
C13_ExampleIncreasingConfident ==
    (result.op = "detect_trends" /\ TrendTable = <<ExampleSeries>>
       /\ TrendColumn = "approval_rate") =>
        /\ result.value.trend = "increasing"
        /\ result.value.confidence \in {"high", "moderate"}

\* the non-missing values of the column asked for, in order
TrendValues == DropnaValues(TrendTable[1], TrendColumn)

\* two quotients are the same number
RatEq(a, b) == a.num * b.den = b.num * a.den

\* C14: when the trend is not 'insufficient data', recent_change is
\* (last - first) / first over the last 3 non-missing values, and 0 when that
\* first value is 0.
C14_RecentChangeTrailingThree ==
    (result.op = "detect_trends" /\ result.value.trend # "insufficient data") =>
        LET n == Len(TrendValues)
            first == TrendValues[n - 2]
            last == TrendValues[n]
        IN IF first = 0 THEN RatEq(result.value.recent_change, Rat(0, 1))
           ELSE RatEq(result.value.recent_change, Rat(last - first, first))

\* C15: the significance test being unavailable, detect_trends on 3 values or
\* more does not raise and returns p_value None, confidence 'low' and the
\* direction of the slope (last - first) / (n - 1) over all the values:
\* 'increasing' above 0.01, 'decreasing' below -0.01, otherwise 'stable'
\* (the values being in hundredths, 0.01 a period is a rise of n - 1).
C15_FallbackSlope ==
    (result.op = "detect_trends" /\ NonMissingCount >= 3) =>
        LET n == Len(TrendValues)
            rise == TrendValues[n] - TrendValues[1]
        IN /\ result.exc = "none"
           /\ result.value.p_value = Null
           /\ result.value.confidence = "low"
           /\ result.value.trend =
                 IF rise > n - 1 THEN "increasing"
                 ELSE IF rise < -(n - 1) THEN "decreasing"
                 ELSE "stable"

\* a series that rises by exactly 0.01 a period is reported stable
C15_Witness ==
    /\ result.op = "detect_trends" /\ NonMissingCount = 3
    /\ TrendValues[3] - TrendValues[1] = 2
    /\ result.value.trend = "stable" /\ result.value.confidence = "low"

---------------------------------------------------------------------------
(* Properties of the rejection ranking *)

\* the rows of the stored table with status_standardized = rejected
RejectedIdx == {i \in 1..Len(data[1].rows) : data[1].rows[i]["status_standardized"] = Str("rejected")}

\* the number of rejected rows with a given rejection reason
ReasonCount(reason) ==
    Cardinality({i \in RejectedIdx : data[1].rows[i]["rejection_reason"] = reason})

\* the reasons given for rejected rows
GivenReasons == {data[1].rows[i]["rejection_reason"] : i \in RejectedIdx} \ {Null}

\* get_rejection_factors has just returned on a table with a status column
RankingReturned ==
    /\ result.op = "get_rejection_factors"
    /\ data # <<>>
    /\ HasColumn(data[1], "status_standardized")

\* C16: get_rejection_factors(n_top) returns, without raising, one row for each
\* distinct reason given for a rejected row, with the number of rejected rows
\* giving it, by non-increasing count, cut to the n_top rows of highest count;
\* the table is empty when no row is rejected or the table has no
\* rejection_reason column.
C16_RejectionRanking ==
    RankingReturned =>
        LET rows == result.value.rows
            n_top == result.args[1]
        IN /\ result.exc = "none"
           /\ result.value.columns = <<"reason", "count", "percentage">>
           /\ IF ~HasColumn(data[1], "rejection_reason") \/ RejectedIdx = {}
              THEN rows = <<>>
              ELSE /\ \A i \in 1..Len(rows) :
                         /\ rows[i].reason \in GivenReasons
                         /\ rows[i].count = ReasonCount(rows[i].reason)
                   /\ \A i, j \in 1..Len(rows) : i # j => rows[i].reason # rows[j].reason
                   /\ \A i \in 1..(Len(rows) - 1) : rows[i].count >= rows[i + 1].count
                   /\ Len(rows) = IF n_top < Cardinality(GivenReasons)
                                  THEN n_top ELSE Cardinality(GivenReasons)
                   /\ \A r \in GivenReasons :
                         (\A i \in 1..Len(rows) : rows[i].reason # r) =>
                             \A i \in 1..Len(rows) : rows[i].count >= ReasonCount(r)

\* the ranking cut to one row out of two reasons, the reason kept being the
\* more frequent one although the other one comes first in the table
C16_Witness ==
    /\ RankingReturned /\ result.exc = "none"
    /\ result.args[1] = 1
    /\ HasColumn(data[1], "rejection_reason")
    /\ Cardinality(GivenReasons) = 2
    /\ Len(result.value.rows) = 1
    /\ result.value.rows[1].reason = Str("Low Credit Score")
    /\ data[1].rows[1]["rejection_reason"] = Str("Other")

\* C17: each percentage of the ranking is 100 * count / (number of rejected
\* rows, those without a reason included), to two decimals; with 6 rejections
\* for 'Low Credit Score' and 4 for 'Other' the first row is 'Low Credit
\* Score', 6, 60.0.
C17_PercentageOfAllRejections ==
    (RankingReturned /\ result.exc = "none") =>
        /\ \A i \in 1..Len(result.value.rows) :
              result.value.rows[i].percentage =
                  RoundDiv(result.value.rows[i].count * 10000, Cardinality(RejectedIdx))
        /\ (/\ HasColumn(data[1], "rejection_reason")
            /\ ReasonCount(Str("Low Credit Score")) = 6
            /\ ReasonCount(Str("Other")) = 4
            /\ Cardinality(RejectedIdx) = 10) =>
               result.value.rows[1] = [reason |-> Str("Low Credit Score"), count |-> 6,
                                       percentage |-> 6000]

---------------------------------------------------------------------------
(* Properties of identify_bottlenecks *)

\* the highest number of rejected rows giving the same reason
TopReasonCount ==
    IF GivenReasons = {} THEN 0
    ELSE ReasonCount(CHOOSE r \in GivenReasons :
                         \A q \in GivenReasons : ReasonCount(r) >= ReasonCount(q))

\* the number of rejected rows giving a reason
ReasonedRejections == Cardinality({i \in RejectedIdx : ~IsNa(data[1].rows[i]["rejection_reason"])})

\* the bottlenecks of type 'rejection_reason' in the list returned
ReasonBottlenecks == SelectSeq(result.value, LAMBDA b : b.type = "rejection_reason")

---------------------------------------------------------------------------
(* Properties of the optional fields *)

\* a column of the stored table holding numbers, one at least not missing
HasNumericData(c) ==
    /\ HasColumn(data[1], c)
    /\ \A i \in 1..Len(data[1].rows) : data[1].rows[i][c].k \in {"num", "null"}
    /\ \E i \in 1..Len(data[1].rows) : data[1].rows[i][c].k = "num"

\* C18: get_correlation_factors returns a row for loan_amount, income,
\* credit_score or processing_time_days only if that column holds numeric data
\* in the table, one row at most for each, and when no factor qualifies it
\* returns a table without rows whose columns are factor and
\* correlation_with_approval.
C18_FactorsWithoutDataOmitted ==
    (result.op = "get_correlation_factors" /\ result.exc = "none") =>
        LET rows == result.value.rows
        IN /\ \A i \in 1..Len(rows) :
                 /\ rows[i].factor \in Range(potential_factors)
                 /\ HasNumericData(rows[i].factor)
           /\ \A i, j \in 1..Len(rows) : i # j => rows[i].factor # rows[j].factor
           /\ (\A c \in Range(potential_factors) : ~HasNumericData(c)) =>
                 /\ rows = <<>>
                 /\ result.value.columns = <<"factor", "correlation_with_approval">>

OptionalFields == {"loan_amount", "income", "credit_score", "rejection_reason"}

Unmapped(f) == f \notin DOMAIN column_mapping \/ ~Truthy(column_mapping[f])

\* no cell of the raw column mapped to a date field parses as a date
NoDateParses(f) ==
    \A i \in 1..Len(raw_data.rows) :
        IsNa(ValueAt(apply_parse_date, raw_data.rows[i][column_mapping[f].v]))

\* the rows of the table a query returned that are about a factor
FactorRows(f) == {i \in 1..Len(result.value.rows) : result.value.rows[i].factor = f}

---------------------------------------------------------------------------
(* Properties of the grouping of get_approval_rate *)

\* the column a time period stands for in the stored table, "" if none
TimeBucket(time_period) ==
    CASE time_period = Str("monthly") /\ HasColumn(data[1], "application_yearmonth")
            -> "application_yearmonth"
      [] time_period = Str("quarterly") /\ HasColumn(data[1], "application_date")
            -> "quarter"
      [] time_period = Str("yearly") /\ HasColumn(data[1], "application_year")
            -> "application_year"
      [] OTHER -> ""

\* C30: get_approval_rate groups by the time bucket when time_period is
\* 'monthly', 'quarterly' or 'yearly' and the table has the column it needs,
\* whatever group_by is; otherwise by group_by if it names a column of the
\* table; otherwise it returns the single overall row; it does not raise.
C30_GroupingChoice ==
    (/\ result.op = "get_approval_rate"
     /\ data # <<>>
     /\ HasColumn(data[1], "status_standardized")) =>
        LET group_by == result.args[1]
            bucket == TimeBucket(result.args[2])
        IN /\ result.exc = "none"
           /\ bucket # "" => result.value.grouper = bucket
           /\ (bucket = "" /\ group_by # Null /\ HasColumn(data[1], group_by.v)) =>
                  result.value.grouper = group_by.v
           /\ (bucket = "" /\ (group_by = Null \/ ~HasColumn(data[1], group_by.v))) =>
                  /\ result.value.grouper = ""
                  /\ Len(result.value.rows) = 1
                  /\ result.value.rows[1].total_applications = Len(data[1].rows)
           /\ result.value.grouper # "" =>
                  \A i \in 1..Len(result.value.rows) : result.value.rows[i].key # Null

\* a monthly rate asked for together with a group_by naming a column of the
\* table: the rows are the months
C30_Witness ==
    /\ result.op = "get_approval_rate" /\ result.exc = "none"
    /\ result.args = <<Str("rejection_reason"), Str("monthly")>>
    /\ HasColumn(data[1], "rejection_reason")
    /\ result.value.grouper = "application_yearmonth"
    /\ Len(result.value.rows) > 0

\* the list identify_bottlenecks has just returned for the stored table
BottlenecksReturned ==
    /\ result.op = "identify_bottlenecks"
    /\ data # <<>>
    /\ Len(data[1].rows) > 0

\* the numbers of applications of the months of the stored table, by month
MonthCounts ==
    LET months == GroupKeys(data[1].rows, "application_yearmonth")
    IN [i \in 1..Len(months) |->
          Cardinality({j \in 1..Len(data[1].rows) :
                          data[1].rows[j]["application_yearmonth"] = months[i]})]

\* the months whose count differs from the count of the month before by more
\* than 30% of it
ChangedMonths ==
    {i \in 2..Len(MonthCounts) :
        \/ (MonthCounts[i] - MonthCounts[i - 1]) * 100 > 30 * MonthCounts[i - 1]
        \/ (MonthCounts[i - 1] - MonthCounts[i]) * 100 > 30 * MonthCounts[i - 1]}

\* C21: whenever the number of applications of some month differs by more than
\* 30% from the month before, for any number of months, identify_bottlenecks
\* reports a 'volume_fluctuation' bottleneck of severity 'medium' whose
\* description gives the number of such months.
C21_VolumeFluctuationAnyMonths ==
    (BottlenecksReturned /\ HasColumn(data[1], "application_yearmonth")) =>
        (ChangedMonths # {} =>
            \E i \in 1..Len(result.value) :
                /\ result.value[i].type = "volume_fluctuation"
                /\ result.value[i].severity = "medium"
                /\ result.value[i].description =
                       "Significant monthly volume fluctuations detected in "
                       \o IntStr(Cardinality(ChangedMonths)) \o " months")

\* the processing times of the stored table that are not missing, sorted
SortedTimes == SortInts(DropnaValues(data[1], "processing_time_days"))

\* the number of processing times above Q3 + 1.5 * (Q3 - Q1)
UpperOutliers ==
    Cardinality({i \in 1..Len(SortedTimes) :
        2 * 4 * SortedTimes[i] >
            2 * Quantile4(SortedTimes, 3)
            + 3 * (Quantile4(SortedTimes, 3) - Quantile4(SortedTimes, 1))})

\* the bottlenecks of type 'processing_time' in the list returned
TimeBottlenecks == SelectSeq(result.value, LAMBDA b : b.type = "processing_time")

\* C22 as stated: identify_bottlenecks reports a 'processing_time' bottleneck
\* exactly when more than 10% of the rows of the table are above
\* Q3 + 1.5 * (Q3 - Q1), 'high' when more than 20% of the rows are.
C22_OutlierShareOfRows ==
    (BottlenecksReturned /\ HasColumn(data[1], "processing_time_days")) =>
        /\ Len(TimeBottlenecks) =
              IF UpperOutliers * 10 > Len(data[1].rows) THEN 1 ELSE 0
        /\ \A i \in 1..Len(TimeBottlenecks) :
              TimeBottlenecks[i].severity =
                  IF UpperOutliers * 5 > Len(data[1].rows) THEN "high" ELSE "medium"

\* C22: identify_bottlenecks reports a 'processing_time' bottleneck exactly
\* when more than 10% of the processing times that are not missing are above
\* Q3 + 1.5 * (Q3 - Q1); its severity is 'high' when more than 20% of them are
\* and 'medium' otherwise.
C22_OutlierThresholds ==
    (BottlenecksReturned /\ HasColumn(data[1], "processing_time_days")) =>
        /\ Len(TimeBottlenecks) =
              IF Len(SortedTimes) > 0 /\ UpperOutliers * 10 > Len(SortedTimes) THEN 1 ELSE 0
        /\ \A i \in 1..Len(TimeBottlenecks) :
              TimeBottlenecks[i].severity =
                  IF UpperOutliers * 5 > Len(SortedTimes) THEN "high" ELSE "medium"

\* one processing time out of nine is an outlier and a tenth row has none:
\* over 10% of the processing times, but not of the rows, reported 'medium'
C22_Witness ==
    /\ BottlenecksReturned /\ HasColumn(data[1], "processing_time_days")
    /\ Len(data[1].rows) = 10
    /\ Len(SortedTimes) = 9 /\ UpperOutliers = 1
    /\ Len(TimeBottlenecks) = 1
    /\ TimeBottlenecks[1].severity = "medium"

---------------------------------------------------------------------------
(* filter_dataframe *)

\* the rows of the view a are rows of the view b, in the order of b
IsSubView(a, b) ==
    IF b = <<>> THEN a = <<>>
    ELSE /\ a # <<>>
         /\ a[1].columns = b[1].columns
         /\ \E S \in SUBSET (1..Len(b[1].rows)) : a[1].rows = PickRows(b[1].rows, S, 1)

\* C25: filter_dataframe is idempotent and free of side effects: a call
\* leaves the processor's table unchanged and returns rows of the view it was
\* given in their order, and the same filters applied again, to the same view
\* or to the view they returned, return the same rows.
C25_FilterIdempotent ==
    [][(result'.op = "filter_dataframe" /\ result'.exc = "none") =>
          /\ data' = data
          /\ IsSubView(result'.value, result'.args[2])
          /\ (/\ result.op = "filter_dataframe"
              /\ result.exc = "none"
              /\ result'.args[1] = result.args[1]
              /\ result'.args[2] \in {result.args[2], result.value})
             => result'.value = result.value]_vars

\* C28: with a selection of values of any length for status_standardized as
\* the only filter, filter_dataframe returns exactly the rows whose status is
\* one of the values selected.
C28_SelectionIsMembership ==
    (/\ result.op = "filter_dataframe"
     /\ result.exc = "none"
     /\ result.args[2] # <<>>
     /\ Len(result.args[1]) = 1
     /\ result.args[1][1][1] = "status_standardized"
     /\ result.args[1][1][2].kind = "list"
     /\ HasColumn(result.args[2][1], "status_standardized")) =>
        result.value[1].rows =
            SelectSeq(result.args[2][1].rows,
                      LAMBDA r : r["status_standardized"] \in Range(result.args[1][1][2].items))

---------------------------------------------------------------------------
(* generate_insights and generate_recommendations *)

InsightsReturned == result.op = "generate_insights"

\* 1 when a trend other than 'insufficient data' is supplied, else 0
Supplied(trend) ==
    IF trend # <<>> /\ trend[1].trend # "insufficient data" THEN 1 ELSE 0

\* the list returned holds the approval trend insight, the processing time
\* trend insight, the supplied bottlenecks in their order and then
\* correlation insights only
AggregatedInOrder ==
    LET a == Supplied(result.args[2])
        p == Supplied(result.args[3])
        bottlenecks == result.args[4]
        b == Len(bottlenecks)
        insights == result.value
    IN /\ Len(insights) >= a + p + b
       /\ a = 1 => insights[1].category = "approval_rate"
       /\ p = 1 => insights[a + 1].category = "processing_time"
       /\ \A i \in 1..b :
             /\ insights[a + p + i].category = "bottleneck"
             /\ insights[a + p + i].description = bottlenecks[i].description
             /\ insights[a + p + i].severity = bottlenecks[i].severity
       /\ \A i \in (a + p + b + 1)..Len(insights) : insights[i].category = "correlation"

EmptyView(view) == view = <<>> \/ Empty(view[1])

\* C23 as stated: for any view, the trends and bottlenecks supplied are
\* aggregated in that order.
C23_AnyViewAggregates == InsightsReturned => AggregatedInOrder

\* C23: for a view that has rows, generate_insights returns the approval
\* trend insight, the processing time trend insight (each exactly when a
\* trend other than 'insufficient data' is supplied), one insight per
\* supplied bottleneck in input order with its description and severity, and
\* then the correlation insights; for no view or a view without rows it
\* returns the empty list.
C23_NonEmptyViewAggregates ==
    InsightsReturned =>
        IF EmptyView(result.args[1]) THEN result.value = <<>> ELSE AggregatedInOrder

\* both trends, three bottlenecks and a correlation, all reported
C23_Witness ==
    /\ InsightsReturned
    /\ ~EmptyView(result.args[1])
    /\ Supplied(result.args[2]) = 1
    /\ Supplied(result.args[3]) = 1
    /\ Len(result.args[4]) = 3
    /\ Len(result.value) > 5
    /\ result.value[Len(result.value)].category = "correlation"

RecommendationsReturned == result.op = "generate_recommendations"

SpecificReturned == SelectSeq(result.value, LAMBDA r : r.category # "general")
GeneralReturned == SelectSeq(result.value, LAMBDA r : r.category = "general")

\* C24: for every insights list, the empty one included, the general
\* recommendations are added exactly when fewer than 3 specific ones were
\* made, and the list returned is never empty.
C24_NeverEmpty ==
    RecommendationsReturned =>
        /\ Len(result.value) > 0
        /\ Len(SpecificReturned) < 3 => GeneralReturned = GeneralRecommendations
        /\ Len(SpecificReturned) >= 3 => GeneralReturned = <<>>

\* the insights generate_insights makes of the trends of one direction
TrendInsightsOf(category, subject, direction) ==
    {TrendInsights(category, subject, t)[1] :
        t \in {x \in TrendPool : Supplied(x) = 1 /\ x[1].trend = direction}}

\* the number of insights of the list handed over that report such a trend
TrendCount(category, subject, direction) ==
    Cardinality({i \in 1..Len(result.args[1]) :
        result.args[1][i] \in TrendInsightsOf(category, subject, direction)})

\* the number of recommendations returned of a category and priority
RecommendationCount(category, priority) ==
    Cardinality({i \in 1..Len(result.value) :
        result.value[i].category = category /\ result.value[i].priority = priority})

\* C26: a decreasing approval rate gives one approval_rate recommendation of
\* priority 'high'; an increasing processing time one processing_time
\* recommendation of priority 'high', a decreasing one of priority 'medium';
\* the other trends give none, and every priority is high, medium or low.
C26_TrendRecommendations ==
    RecommendationsReturned =>
        /\ RecommendationCount("approval_rate", "high")
              = TrendCount("approval_rate", "Approval rate", "decreasing")
        /\ RecommendationCount("approval_rate", "medium") = 0
        /\ RecommendationCount("approval_rate", "low") = 0
        /\ RecommendationCount("processing_time", "high")
              = TrendCount("processing_time", "Processing time", "increasing")
        /\ RecommendationCount("processing_time", "medium")
              = TrendCount("processing_time", "Processing time", "decreasing")
        /\ RecommendationCount("processing_time", "low") = 0
        /\ \A i \in 1..Len(result.value) :
              result.value[i].priority \in {"high", "medium", "low"}

\* both trends decreasing: a 'high' and a 'medium' recommendation
C26_Witness ==
    /\ RecommendationsReturned
    /\ TrendCount("approval_rate", "Approval rate", "decreasing") = 1
    /\ TrendCount("processing_time", "Processing time", "decreasing") = 1
    /\ RecommendationCount("approval_rate", "high") = 1
    /\ RecommendationCount("processing_time", "medium") = 1

\* C27: every bottleneck insight made of a bottleneck of identify_bottlenecks
\* gives at least one recommendation of category 'bottleneck', of priority
\* 'high' when the severity is 'high'.
C27_BottleneckRecommended ==
    RecommendationsReturned =>
        \A i \in 1..Len(result.args[1]) :
            result.args[1][i].category = "bottleneck" =>
                /\ RecommendationCount("bottleneck", "high")
                   + RecommendationCount("bottleneck", "medium") > 0
                /\ result.args[1][i].severity = "high" =>
                       RecommendationCount("bottleneck", "high") > 0

---------------------------------------------------------------------------
(* The session *)

\* the processor in the session state has a processed table
ProcessorHasData ==
    /\ "processor" \in DOMAIN session_state
    /\ session_state.processor = "DataProcessor"
    /\ data # <<>>

\* C29: in every session state, when a page has passed its availability
\* check, and when analysis_complete is true, the processor of the session
\* state has a processed table (processor.data is not None).
C29_ProcessorHasData ==
    /\ (result.op = "availability_check" /\ result.value = <<TRUE>>) => ProcessorHasData
    /\ ("analysis_complete" \in DOMAIN session_state /\ session_state.analysis_complete)
           => ProcessorHasData

====
